---- MODULE Spec2Model ----
(***************************************************************************)
(* ZipRenamer: the batch rename engine of POST /api/process, the rule      *)
(* evaluator applyRenamingRules and the archive analyzer analyzeArchive.   *)
(*                                                                         *)
(* A JavaScript string is a sequence of one-character strings:             *)
(*   "a.jpg" is <<"a", ".", "j", "p", "g">>.                               *)
(* Positions in comments are 0-based as in JavaScript; the sequences are   *)
(* 1-based.  path.* is the POSIX implementation of Node.                   *)
(***************************************************************************)
EXTENDS Integers, Sequences, FiniteSets, TLC

VARIABLES
    entries,          \* zip.getEntries(): the listing, [entryName, isDirectory, size]
    groups,           \* req.body.ruleGroups after normalisation
    pc,               \* position of the request sequence
    di,               \* number of directory entries phase 1 has handled
    fi,               \* number of file entries phase 2 has handled
    groupCounters,    \* { groupId: n }
    folderRenameMap,  \* Map old folder path -> new folder path, in insertion order
    newZip,           \* the addFile calls, in order: [originalName, finalPath, isDirectory]
    handed,           \* the (group id, scoped index) pairs handed to applyRenamingRules
    sent,             \* the archives sent by res.send, one per completed request
    report,           \* the result of analyzeArchive(files)
    warningsIn,       \* the argument of a calculateSeverity call
    severityOut,      \* its result
    scopeIn,          \* the arguments of a scope check: an entry and a group
    scopeOut,         \* its results: the server and the client verdicts
    previews,         \* file.preview of the files of the client, after updatePreviews
    zipOnDisk,        \* the uploaded archive is in the temp directory
    metaOnDisk,       \* its .meta file is in the temp directory
    timerArmed,       \* the setTimeout of /api/analyze has not fired yet
    answers,          \* the requests answered for the tempId: [route, status]
    filesIn,          \* the argument of an analyzeArchive call of the library
    analysisOut       \* its outcome: the report, or that the call raised

\* the locals of one /api/process request
requestVars == <<di, fi, groupCounters, folderRenameMap, newZip, handed>>
severityVars == <<warningsIn, severityOut>>
scopeVars == <<scopeIn, scopeOut>>
storeVars == <<zipOnDisk, metaOnDisk, timerArmed, answers>>
analyzerVars == <<filesIn, analysisOut>>

vars == <<entries, groups, pc, di, fi, groupCounters, folderRenameMap, newZip,
          handed, sent, report, warningsIn, severityOut, scopeIn, scopeOut, previews,
          zipOnDisk, metaOnDisk, timerArmed, answers, filesIn, analysisOut>>

----------------------------------------------------------------------------
(* Bounds of the model                                                     *)

MaxEntries == 2
MaxGroups == 1
MaxConflictGroups == 11
MaxSystemFiles == 21
MaxMany == 6
MaxFew == 1
MaxRuns == 2
MaxCleanFiles == 6
MaxRequests == 4

----------------------------------------------------------------------------
(* Characters                                                              *)

\* the letters that have a form with an acute accent, and those forms; a form
\* the parser does not take as a character is written by its code point
AcuteBaseLower == <<"a","c","e","g","i","k","l","m","n","o","p","r","s","u","w","y","z">>
AcuteBaseUpper == <<"A","C","E","G","I","K","L","M","N","O","P","R","S","U","W","Y","Z">>
AcuteLower == <<"á","U+0107","é","ǵ","í","U+1E31","U+013A","U+1E3F","U+0144","ó","U+1E55",
                "U+0155","U+015B","ú","ẃ","ý","U+017A">>
AcuteUpper == <<"Á","U+0106","É","Ǵ","Í","U+1E30","U+0139","U+1E3E","U+0143","Ó","U+1E54",
                "U+0154","U+015A","Ú","Ẃ","Ý","U+0179">>
AcuteBase == AcuteBaseLower \o AcuteBaseUpper
AcuteComposed == AcuteLower \o AcuteUpper

LowerAlpha == <<"a","b","c","d","e","f","g","h","i","j","k","l","m",
                "n","o","p","q","r","s","t","u","v","w","x","y","z">> \o AcuteLower
UpperAlpha == <<"A","B","C","D","E","F","G","H","I","J","K","L","M",
                "N","O","P","Q","R","S","T","U","V","W","X","Y","Z">> \o AcuteUpper
Digits == <<"0","1","2","3","4","5","6","7","8","9">>

Range(f) == {f[x] : x \in DOMAIN f}

AsciiLower == {LowerAlpha[k] : k \in 1..26}
AsciiUpper == {UpperAlpha[k] : k \in 1..26}
AsciiLetters == AsciiLower \cup AsciiUpper
DigitChars == Range(Digits)
WhiteSpace == {" ", "\t", "\n", "\r"}
ControlChars == {"\t", "\n", "\r"}
\* the combining acute accent, written by its code point: "é" decomposes into
\* "e" followed by it
CombiningAcute == "U+0301"
\* the letters with an acute accent above U+07FF
AcuteThreeBytes == {"U+1E31", "U+1E3F", "U+1E55", "ẃ", "U+1E30", "U+1E3E", "U+1E54", "Ẃ"}
TwoByteChars == ({AcuteComposed[k] : k \in 1..Len(AcuteComposed)} \ AcuteThreeBytes)
                \cup {CombiningAcute}
ThreeByteChars == {"€"} \cup AcuteThreeBytes

IndexIn(seq, c) == CHOOSE k \in DOMAIN seq : seq[k] = c

CharToLower(c) == IF c \in Range(UpperAlpha) THEN LowerAlpha[IndexIn(UpperAlpha, c)] ELSE c
CharToUpper(c) == IF c \in Range(LowerAlpha) THEN UpperAlpha[IndexIn(LowerAlpha, c)] ELSE c

----------------------------------------------------------------------------
(* String primitives                                                       *)

toLowerCase(s) == [k \in 1..Len(s) |-> CharToLower(s[k])]
toUpperCase(s) == [k \in 1..Len(s) |-> CharToUpper(s[k])]

\* s.slice(a, b) for 0 <= a, b
slice(s, a, b) == IF b > a THEN SubSeq(s, a + 1, IF b > Len(s) THEN Len(s) ELSE b) ELSE <<>>

startsWith(s, p) == Len(p) <= Len(s) /\ SubSeq(s, 1, Len(p)) = p
endsWith(s, p) == Len(p) <= Len(s) /\ SubSeq(s, Len(s) - Len(p) + 1, Len(s)) = p

SetMax(S) == CHOOSE m \in S : \A x \in S : x <= m
SetMin(S) == CHOOSE m \in S : \A x \in S : m <= x

\* s.lastIndexOf(c) for a single character c
lastIndexOf(s, c) == LET P == {k \in 1..Len(s) : s[k] = c} IN IF P = {} THEN -1 ELSE SetMax(P) - 1

\* s.replace(/\\/g, "/")
normalizeSlashes(s) == [k \in 1..Len(s) |-> IF s[k] = "\\" THEN "/" ELSE s[k]]

\* the occurrences of the literal p in s, as 1-based start positions
OccursAt(s, p, k) == k >= 1 /\ k + Len(p) - 1 <= Len(s) /\ SubSeq(s, k, k + Len(p) - 1) = p

\* the replacement string of String.prototype.replace with its $ patterns:
\* $$ is a dollar and $& the match; a string or escaped pattern has no capture
\* group, so $1..$9 stay as they are; the two patterns for the text before and
\* after the match need a quote character, which no string of the model holds
RECURSIVE expandReplacement(_, _)
expandReplacement(repl, matched) ==
    IF repl = <<>> THEN <<>>
    ELSE IF repl[1] = "$" /\ Len(repl) >= 2 /\ repl[2] \in {"$", "&"}
         THEN (IF repl[2] = "$" THEN <<"$">> ELSE matched)
              \o expandReplacement(SubSeq(repl, 3, Len(repl)), matched)
         ELSE <<repl[1]>> \o expandReplacement(Tail(repl), matched)

\* s.replace(p, repl) with a string pattern: the first occurrence only
replaceFirst(s, p, repl) ==
    LET P == {k \in 1..(Len(s) + 1) : OccursAt(s, p, k)} IN
    IF P = {} THEN s
    ELSE LET k == SetMin(P)
             before == SubSeq(s, 1, k - 1)
             after == SubSeq(s, k + Len(p), Len(s))
         IN before \o expandReplacement(repl, p) \o after

\* s.replace(new RegExp(escapeRegExp(p), "g"), repl) for a non-empty p:
\* every non-overlapping occurrence, left to right
RECURSIVE replaceAllFrom(_, _, _, _)
replaceAllFrom(s, p, repl, k) ==
    IF k > Len(s) THEN <<>>
    ELSE IF OccursAt(s, p, k)
         THEN expandReplacement(repl, p)
              \o replaceAllFrom(s, p, repl, k + Len(p))
         ELSE <<s[k]>> \o replaceAllFrom(s, p, repl, k + 1)

replaceAll(s, p, repl) == replaceAllFrom(s, p, repl, 1)

\* s.split("/")
split(s) ==
    LET cuts == {k \in 1..Len(s) : s[k] = "/"}
        n == Cardinality(cuts)
        \* position of the j-th slash, 0 for j = 0 and Len(s)+1 for j = n+1
        cut(j) == IF j = 0 THEN 0
                  ELSE IF j = n + 1 THEN Len(s) + 1
                  ELSE CHOOSE k \in cuts : Cardinality({c \in cuts : c <= k}) = j
    IN [j \in 1..(n + 1) |-> SubSeq(s, cut(j - 1) + 1, cut(j) - 1)]

\* parts.join("/")
RECURSIVE join(_)
join(parts) ==
    IF parts = <<>> THEN <<>>
    ELSE IF Len(parts) = 1 THEN parts[1]
    ELSE parts[1] \o <<"/">> \o join(Tail(parts))

\* String(n) for an integer n >= 0
RECURSIVE String(_)
String(n) == IF n < 10 THEN <<Digits[n + 1]>> ELSE String(n \div 10) \o <<Digits[(n % 10) + 1]>>

\* s.padStart(n, "0")
padStart(s, n) == IF Len(s) >= n THEN s ELSE [k \in 1..(n - Len(s)) |-> "0"] \o s

\* a mutant of byteLength: s.length, the count of characters
byteLength_chars(s) == Len(s)

\* Buffer.byteLength(s, "utf8")
byteLength(s) ==
    Len(s) + Cardinality({k \in 1..Len(s) : s[k] \in TwoByteChars})
           + 2 * Cardinality({k \in 1..Len(s) : s[k] \in ThreeByteChars})

----------------------------------------------------------------------------
(* path.posix                                                              *)

\* the path without its trailing slashes
stripTrailingSlashes(p) ==
    LET P == {k \in 1..Len(p) : p[k] # "/"} IN
    IF P = {} THEN <<>> ELSE SubSeq(p, 1, SetMax(P))

\* the last component of the path, trailing slashes ignored
lastComponent(p) ==
    LET t == stripTrailingSlashes(p)
    IN SubSeq(t, lastIndexOf(t, "/") + 2, Len(t))

\* path.basename(p)
basename(p) == lastComponent(p)

\* path.extname(p)
extname(p) ==
    LET c == lastComponent(p)
        dot == lastIndexOf(c, ".")
    IN IF dot <= 0 \/ c = <<".", ".">> THEN <<>> ELSE SubSeq(c, dot + 1, Len(c))

\* path.basename(p, suffix)
basenameExt(p, suffix) ==
    IF suffix = <<>> \/ Len(suffix) > Len(p) THEN basename(p)
    ELSE IF suffix = p THEN <<>>
    ELSE LET c == lastComponent(p) IN
         IF c = <<>> THEN p
         ELSE IF endsWith(c, suffix) /\ c # suffix THEN SubSeq(c, 1, Len(c) - Len(suffix))
         ELSE IF Len(c) < Len(suffix) /\ endsWith(suffix, c)
              THEN SubSeq(p, Len(stripTrailingSlashes(p)) - Len(c) + 1, Len(p))
         ELSE c

\* path.dirname(p)
dirname(p) ==
    IF p = <<>> THEN <<".">>
    ELSE LET hasRoot == p[1] = "/"
             t == stripTrailingSlashes(p)
             \* 0-based position of the last slash before the last component, from 1 up
             S == {k \in 2..Len(t) : t[k] = "/"}
         IN IF S = {} THEN (IF hasRoot THEN <<"/">> ELSE <<".">>)
            ELSE LET end == SetMax(S) - 1 IN
                 IF hasRoot /\ end = 1 THEN <<"/", "/">> ELSE SubSeq(p, 1, end)

\* path.parse(p).name + path.parse(p).ext: the base of the path
parseNameExt(p) == lastComponent(p)

----------------------------------------------------------------------------
(* Rules and groups are JSON objects: records whose fields may be missing.  *)
(* type, scope, position and id are only ever compared with constants and   *)
(* are kept as atoms; find, replace, text, separator and scopeValue are     *)
(* strings; start and padding are numbers.                                  *)

Has(obj, f) == f \in DOMAIN obj

\* obj.f || "" for a string field
StrField(obj, f) == IF Has(obj, f) THEN obj[f] ELSE <<>>

\* obj.f for an atom field, "" standing for undefined
AtomField(obj, f) == IF Has(obj, f) THEN obj[f] ELSE ""

\* s.trim()
trim(s) ==
    LET P == {k \in 1..Len(s) : s[k] \notin WhiteSpace} IN
    IF P = {} THEN <<>> ELSE SubSeq(s, SetMin(P), SetMax(P))

\* s.replace(/\s+/g, " ")
RECURSIVE normalizeSpace(_)
normalizeSpace(s) ==
    IF s = <<>> THEN <<>>
    ELSE IF s[1] \in WhiteSpace
         THEN IF Len(s) >= 2 /\ s[2] \in WhiteSpace THEN normalizeSpace(Tail(s))
              ELSE <<" ">> \o normalizeSpace(Tail(s))
         ELSE <<s[1]>> \o normalizeSpace(Tail(s))

\* s.replace(/[^a-zA-Z0-9\s-_]/g, "")
removeSpecial(s) ==
    SelectSeq(s, LAMBDA c : c \in AsciiLetters \cup DigitChars \cup WhiteSpace \cup {"-", "_"})

\* s.replace(/([a-z])([A-Z])/g, "$1-$2"): a hyphen between an ASCII lower-case
\* letter and the ASCII upper-case letter that follows it
RECURSIVE splitCamel(_)
splitCamel(s) ==
    IF Len(s) < 2 THEN s
    ELSE IF s[1] \in AsciiLower /\ s[2] \in AsciiUpper
         THEN <<s[1], "-", s[2]>> \o splitCamel(SubSeq(s, 3, Len(s)))
         ELSE <<s[1]>> \o splitCamel(Tail(s))

\* s.replace(/[\s_]+/g, "-")
RECURSIVE hyphenate(_)
hyphenate(s) ==
    IF s = <<>> THEN <<>>
    ELSE IF s[1] \in WhiteSpace \cup {"_"}
         THEN IF Len(s) >= 2 /\ s[2] \in WhiteSpace \cup {"_"} THEN hyphenate(Tail(s))
              ELSE <<"-">> \o hyphenate(Tail(s))
         ELSE <<s[1]>> \o hyphenate(Tail(s))

kebabCase(s) == toLowerCase(hyphenate(splitCamel(s)))

\* rule.start || 1, rule.padding || 1, rule.separator || "-"
numberingStart(rule) == IF Has(rule, "start") /\ rule.start # 0 THEN rule.start ELSE 1
numberingPadding(rule) == IF Has(rule, "padding") /\ rule.padding # 0 THEN rule.padding ELSE 1
numberingSeparator(rule) ==
    IF Has(rule, "separator") /\ rule.separator # <<>> THEN rule.separator ELSE <<"-">>

\* one pass of the switch on rule.type.  A pattern of a regex rule is a text
\* without metacharacters and the rule has no flags: new RegExp(pattern, "g")
\* then matches the occurrences of the text
applyRule(newName, index, rule) ==
    LET type == AtomField(rule, "type") IN
    CASE type = "replace" ->
            IF StrField(rule, "find") # <<>>
            THEN replaceAll(newName, rule.find, StrField(rule, "replace"))
            ELSE newName
      [] type = "regex" ->
            IF StrField(rule, "pattern") # <<>>
            THEN replaceAll(newName, rule.pattern, StrField(rule, "replace"))
            ELSE newName
      [] type = "trim" -> trim(newName)
      [] type = "normalize_space" -> normalizeSpace(newName)
      [] type = "lowercase" -> toLowerCase(newName)
      [] type = "uppercase" -> toUpperCase(newName)
      [] type = "prefix" -> IF StrField(rule, "text") # <<>> THEN rule.text \o newName ELSE newName
      [] type = "suffix" -> IF StrField(rule, "text") # <<>> THEN newName \o rule.text ELSE newName
      [] type = "remove_special" -> removeSpecial(newName)
      [] type = "kebab_case" -> kebabCase(newName)
      [] type = "numbering" ->
            LET num == padStart(String(index + numberingStart(rule)), numberingPadding(rule)) IN
            IF AtomField(rule, "position") = "start"
            THEN num \o numberingSeparator(rule) \o newName
            ELSE newName \o numberingSeparator(rule) \o num
      [] OTHER -> newName

\* a mutant of applyRulesFrom: the loop stops after one rule
applyRulesFrom_oneRule(newName, index, rules, k) ==
    IF k > Len(rules) THEN newName ELSE applyRule(newName, index, rules[k])

RECURSIVE applyRulesFrom(_, _, _, _)
applyRulesFrom(newName, index, rules, k) ==
    IF k > Len(rules) THEN newName
    ELSE applyRulesFrom(applyRule(newName, index, rules[k]), index, rules, k + 1)

applyRenamingRules(originalName, index, rules) ==
    LET ext == extname(originalName)
        name == basenameExt(originalName, ext)
    IN applyRulesFrom(name, index, rules, 1) \o ext

\* a mutant of extensionEquals: the comparison without toLowerCase
extensionEquals_exact(ext, targetExt) == ext = targetExt

\* ext.toLowerCase() === targetExt.toLowerCase()
extensionEquals(ext, targetExt) == toLowerCase(ext) = toLowerCase(targetExt)

matchScope(name, scope, scopeValue, isDirectory, exclude) ==
    IF scope = "" THEN TRUE
    ELSE IF scope = "global" THEN ~isDirectory
    ELSE IF scope = "folders" THEN isDirectory
    ELSE IF scope = "extension" THEN
        IF isDirectory THEN FALSE
        ELSE LET ext == extname(name)
                 targetExt == IF startsWith(scopeValue, <<".">>) THEN scopeValue
                              ELSE IF scopeValue # <<>> THEN <<".">> \o scopeValue ELSE <<>>
                 extensionMatches == IF targetExt # <<>>
                                     THEN extensionEquals(ext, targetExt)
                                     ELSE TRUE
             IN IF exclude THEN ~extensionMatches ELSE extensionMatches
    ELSE IF scope = "folder" THEN
        LET normPath == normalizeSlashes(name)
            value == normalizeSlashes(scopeValue)
        IN IF value # <<>> THEN startsWith(normPath, value) ELSE TRUE
    ELSE TRUE

\* the JSON value null in the place of a group or of a rule
Null == [null |-> TRUE]
isNull(x) == Has(x, "null")

\* the group is skipped: !group || !Array.isArray(group.rules) || !group.rules.length
skipGroup(group) == isNull(group) \/ ~Has(group, "rules") \/ group.rules = <<>>

groupId(group) == IF Has(group, "id") THEN group.id ELSE "undefined"

groupMatches(group, normalizedName, isDirectory) ==
    matchScope(normalizedName, AtomField(group, "scope"), StrField(group, "scopeValue"),
               isDirectory, Has(group, "exclude") /\ group.exclude)

\* updatePreviews of the client: file.originalName.split(".").pop() behind a dot
previewFullExt(originalName) ==
    <<".">> \o SubSeq(originalName, lastIndexOf(originalName, ".") + 2, Len(originalName))

\* updatePreviews of the client: withoutTrailingSlash.includes("/")
previewHasParent(originalName) ==
    lastIndexOf(stripTrailingSlashes(normalizeSlashes(originalName)), "/") # -1

\* updatePreviews of the client: the value of match for one file and one group
previewMatch(file, group) ==
    LET scope == AtomField(group, "scope")
        scopeValue == StrField(group, "scopeValue")
    IN IF file.isDirectory /\ ~previewHasParent(file.originalName) THEN FALSE
       ELSE IF scope = "global" THEN ~file.isDirectory
       ELSE IF scope = "folders" THEN file.isDirectory
       ELSE IF scope = "extension" /\ scopeValue # <<>> THEN
           LET target == IF startsWith(scopeValue, <<".">>) THEN scopeValue
                         ELSE <<".">> \o scopeValue
               extensionMatches == ~file.isDirectory
                                   /\ toLowerCase(previewFullExt(file.originalName))
                                      = toLowerCase(target)
           IN IF Has(group, "exclude") /\ group.exclude THEN ~extensionMatches
              ELSE extensionMatches
       ELSE IF scope = "folder" /\ scopeValue # <<>> THEN
           startsWith(normalizeSlashes(file.originalName), normalizeSlashes(scopeValue))
       ELSE FALSE

\* a mutant of counterOf: every read of a counter gives 0
counterOf_zero(counters, id) == 0

\* groupCounters[id], undefined read as 0 by the guard before the increment
counterOf(counters, id) == IF id \in DOMAIN counters THEN counters[id] ELSE 0

\* a mutant of setCounter: the counter is not advanced
setCounter_stuck(counters, id, n) == counters

\* groupCounters[group.id]++
setCounter(counters, id, n) == [x \in DOMAIN counters \cup {id} |-> IF x = id THEN n ELSE counters[x]]

\* switch (rule.type) on a null rule raises a TypeError
rulesThrow(rules) == \E k \in 1..Len(rules) : isNull(rules[k])

\* for (const group of groups) { ... } of both phases, from the k-th group on.
\* st is [name, counters, handed, threw]; a file keeps parsed.name + parsed.ext
\* after every group, a directory keeps what applyRenamingRules returns.  The
\* counter is advanced and the index handed over before applyRenamingRules
\* runs, so both are done when the call raises and ends the loop
RECURSIVE groupLoop(_, _, _, _, _)
groupLoop(gs, k, st, normalizedName, isDirectory) ==
    IF k > Len(gs) \/ st.threw THEN st
    ELSE LET group == gs[k] IN
         IF skipGroup(group) \/ ~groupMatches(group, normalizedName, isDirectory)
         THEN groupLoop(gs, k + 1, st, normalizedName, isDirectory)
         ELSE LET id == groupId(group)
                  groupIndex == counterOf(st.counters, id)
                  counters == setCounter(st.counters, id, groupIndex + 1)
                  handedOver == Append(st.handed, <<id, groupIndex>>)
              IN IF rulesThrow(group.rules)
                 THEN [name |-> st.name, counters |-> counters, handed |-> handedOver,
                       threw |-> TRUE]
                 ELSE LET renamed == applyRenamingRules(st.name, groupIndex, group.rules) IN
                      groupLoop(gs, k + 1,
                                [name |-> IF isDirectory THEN renamed ELSE parseNameExt(renamed),
                                 counters |-> counters, handed |-> handedOver, threw |-> FALSE],
                                normalizedName, isDirectory)

----------------------------------------------------------------------------
(* The preview of the client: applyRules and updatePreviews of app.js       *)

\* s.includes(sub)
includes(s, sub) == \E k \in 1..(Len(s) + 1) : OccursAt(s, sub, k)

\* date.toISOString() of an instant given by its UTC fields, for the years
\* 0 to 9999: YYYY-MM-DDTHH:mm:ss.sssZ
toISOString(now) ==
    padStart(String(now.year), 4) \o <<"-">> \o padStart(String(now.month), 2) \o <<"-">>
    \o padStart(String(now.day), 2) \o <<"T">> \o padStart(String(now.hour), 2) \o <<":">>
    \o padStart(String(now.minute), 2) \o <<":">> \o padStart(String(now.second), 2)
    \o <<".">> \o padStart(String(now.ms), 3) \o <<"Z">>

\* new Date().toISOString().split("T")[0], where new Date() gives the instant
\* now: the text before the first "T"
currentDate(now) ==
    LET iso == toISOString(now)
        P == {k \in 1..Len(iso) : iso[k] = "T"}
    IN IF P = {} THEN iso ELSE SubSeq(iso, 1, SetMin(P) - 1)

\* the clock of the page is the sequence of the instants its successive reads
\* show, the last one from then on: one read of new Date() and the clock after it
readClock(clock) == clock[1]
afterRead(clock) == IF Len(clock) > 1 THEN Tail(clock) ELSE clock

\* case "pattern": the template with its placeholders replaced; now is the
\* instant new Date() gave
patternResult(pattern, baseName, index, ext, pathPart, now) ==
    LET pathParts == SelectSeq(split(pathPart), LAMBDA p : p # <<>>)
        parentFolder == IF Len(pathParts) > 0 THEN pathParts[Len(pathParts)] ELSE <<>>
        depth == Len(pathParts)
        extWithoutDot == IF startsWith(ext, <<".">>) THEN SubSeq(ext, 2, Len(ext)) ELSE ext
        r1 == replaceAll(pattern, <<"{", "n", "a", "m", "e", "}">>, baseName)
        r2 == replaceAll(r1, <<"{", "i", "n", "d", "e", "x", "}">>, padStart(String(index + 1), 3))
        r3 == replaceAll(r2, <<"{", "e", "x", "t", "}">>, extWithoutDot)
        r4 == replaceAll(r3, <<"{", "p", "a", "r", "e", "n", "t", "}">>, parentFolder)
        r5 == replaceAll(r4, <<"{", "d", "a", "t", "e", "}">>, currentDate(now))
    IN replaceAll(r5, <<"{", "d", "e", "p", "t", "h", "}">>, String(depth))

\* one rule of applyRules, on the base name and the extension; a pattern rule
\* with a pattern reads the clock st.clock once
previewRule(st, index, rule, pathPart) ==
    LET type == AtomField(rule, "type")
        baseName == st.baseName
    IN CASE type = "replace" ->
              [st EXCEPT !.baseName = IF StrField(rule, "find") # <<>>
                                      THEN replaceAll(baseName, rule.find, StrField(rule, "replace"))
                                      ELSE baseName]
         [] type = "prefix" ->
              [st EXCEPT !.baseName = IF StrField(rule, "text") # <<>> THEN rule.text \o baseName
                                      ELSE baseName]
         [] type = "suffix" ->
              [st EXCEPT !.baseName = IF StrField(rule, "text") # <<>> THEN baseName \o rule.text
                                      ELSE baseName]
         [] type = "lowercase" -> [st EXCEPT !.baseName = toLowerCase(baseName)]
         [] type = "uppercase" -> [st EXCEPT !.baseName = toUpperCase(baseName)]
         [] type = "numbering" ->
              LET num == padStart(String(index + numberingStart(rule)), numberingPadding(rule)) IN
              [st EXCEPT !.baseName = IF AtomField(rule, "position") = "start"
                                      THEN num \o numberingSeparator(rule) \o baseName
                                      ELSE baseName \o numberingSeparator(rule) \o num]
         [] type = "remove_special" -> [st EXCEPT !.baseName = removeSpecial(baseName)]
         [] type = "pattern" ->
              IF StrField(rule, "pattern") # <<>>
              THEN [baseName |-> patternResult(rule.pattern, baseName, index, st.ext, pathPart,
                                                readClock(st.clock)),
                    ext |-> IF includes(rule.pattern, <<"{", "e", "x", "t", "}">>) THEN <<>> ELSE st.ext,
                    clock |-> afterRead(st.clock)]
              ELSE st
         [] OTHER -> st

RECURSIVE previewRulesFrom(_, _, _, _, _)
previewRulesFrom(st, index, rules, k, pathPart) ==
    IF k > Len(rules) THEN st
    ELSE previewRulesFrom(previewRule(st, index, rules[k], pathPart), index, rules, k + 1, pathPart)

\* the state of the rule loop of applyRules(name, index, rules, isDirectory)
\* at its end: baseName, ext and the clock after the reads of the loop
applyRulesLoop(name, index, rules, isDirectory, clock) ==
    LET normalized == normalizeSlashes(name)
        stripped == isDirectory /\ endsWith(normalized, <<"/">>)
        workingName == IF stripped THEN stripTrailingSlashes(normalized) ELSE normalized
        lastSlash == lastIndexOf(workingName, "/")
        pathPart == IF lastSlash # -1 THEN slice(workingName, 0, lastSlash + 1) ELSE <<>>
        filePart == IF lastSlash # -1 THEN slice(workingName, lastSlash + 1, Len(workingName))
                    ELSE workingName
        lastDot == lastIndexOf(filePart, ".")
        split0 == ~isDirectory /\ lastDot > 0
    IN previewRulesFrom([baseName |-> IF split0 THEN slice(filePart, 0, lastDot) ELSE filePart,
                         ext |-> IF split0 THEN slice(filePart, lastDot, Len(filePart))
                                 ELSE <<>>,
                         clock |-> clock],
                        index, rules, 1, pathPart)

\* the return value of applyRules after its rule loop ended in the state st:
\* the path part, the base name, the extension and the trailing slash again
applyRulesResult(name, isDirectory, st) ==
    LET normalized == normalizeSlashes(name)
        stripped == isDirectory /\ endsWith(normalized, <<"/">>)
        trailingSlash == IF stripped THEN <<"/">> ELSE <<>>
        workingName == IF stripped THEN stripTrailingSlashes(normalized) ELSE normalized
        lastSlash == lastIndexOf(workingName, "/")
        pathPart == IF lastSlash # -1 THEN slice(workingName, 0, lastSlash + 1) ELSE <<>>
    IN normalizeSlashes(pathPart \o st.baseName \o st.ext \o trailingSlash)

\* applyRules(name, index, rules, isDirectory) of the client, with the clock of
\* the page
applyRules(name, index, rules, isDirectory, clock) ==
    applyRulesResult(name, isDirectory, applyRulesLoop(name, index, rules, isDirectory, clock))

\* for (const rule of rules) raises a TypeError when rules is undefined, and
\* switch (rule.type) when a rule is null
previewRulesThrow(group) == ~Has(group, "rules") \/ rulesThrow(group.rules)

\* the loop over the groups for one file: the current name, the counters,
\* whether the loop raised and the clock after the reads so far
RECURSIVE previewGroupLoop(_, _, _, _)
previewGroupLoop(gs, k, st, file) ==
    IF k > Len(gs) \/ st.threw THEN st
    ELSE IF ~previewMatch(file, gs[k]) THEN previewGroupLoop(gs, k + 1, st, file)
    ELSE IF previewRulesThrow(gs[k]) THEN [st EXCEPT !.threw = TRUE]
    ELSE LET id == groupId(gs[k])
             idx == counterOf(st.counters, id)
             loop == applyRulesLoop(st.name, idx, gs[k].rules, file.isDirectory, st.clock)
         IN previewGroupLoop(gs, k + 1,
                             [name |-> applyRulesResult(st.name, file.isDirectory, loop),
                              counters |-> setCounter(st.counters, id, idx + 1),
                              threw |-> FALSE,
                              clock |-> loop.clock],
                             file)

\* this.files.forEach of updatePreviews: the previews of the files from the
\* k-th on, after those of the files before it
RECURSIVE previewsFrom(_, _, _, _)
previewsFrom(files, gs, k, acc) ==
    IF k > Len(files) \/ acc.threw THEN acc
    ELSE LET file == files[k] IN
         IF file.isDirectory /\ ~previewHasParent(file.originalName)
         THEN previewsFrom(files, gs, k + 1,
                           [acc EXCEPT !.names = Append(acc.names, file.originalName)])
         ELSE LET st == previewGroupLoop(gs, 1, [name |-> file.originalName,
                                                 counters |-> acc.counters, threw |-> FALSE,
                                                 clock |-> acc.clock],
                                         file)
              IN previewsFrom(files, gs, k + 1,
                              [names |-> IF st.threw THEN acc.names
                                         ELSE Append(acc.names, st.name),
                               counters |-> st.counters, threw |-> st.threw,
                               clock |-> st.clock])

\* updatePreviews(): file.preview of every file, or the TypeError of g.id on a
\* null group or of the rules of a group
updatePreviews(files, ruleGroups, clock) ==
    IF \E k \in 1..Len(ruleGroups) : isNull(ruleGroups[k])
    THEN [names |-> <<>>, threw |-> TRUE]
    ELSE LET acc == previewsFrom(files, ruleGroups, 1,
                                 [names |-> <<>>,
                                  counters |-> [id \in {groupId(ruleGroups[k]) :
                                                          k \in 1..Len(ruleGroups)} |-> 0],
                                  threw |-> FALSE, clock |-> clock])
         IN [names |-> acc.names, threw |-> acc.threw]

----------------------------------------------------------------------------
\* a mutant of isTopLevelFolder: no directory is passed through
isTopLevelFolder_never(dirPath) == FALSE

\* lastSlash === -1
isTopLevelFolder(dirPath) == lastIndexOf(dirPath, "/") = -1

\* Map.prototype.set: a known key keeps its place
mapSet(m, key, val) ==
    IF \E k \in 1..Len(m) : m[k][1] = key
    THEN [k \in 1..Len(m) |-> IF m[k][1] = key THEN <<key, val>> ELSE m[k]]
    ELSE Append(m, <<key, val>>)

\* a mutant of rewriteByFolderMap: the file path is not rewritten
rewriteByFolderMap_off(m, normalizedName) == normalizedName

\* the for..of over folderRenameMap.entries() with its break: the first entry
\* whose old path is a prefix rewrites the name
rewriteByFolderMap(m, normalizedName) ==
    LET P == {k \in 1..Len(m) : startsWith(normalizedName, m[k][1])} IN
    IF P = {} THEN normalizedName
    ELSE LET k == SetMin(P) IN replaceFirst(normalizedName, m[k][1], m[k][2])

\* dir.split("/").filter(p => p && p !== ".." && p !== ".").join("/")
safeDirOf(dir) ==
    LET kept == SelectSeq(split(dir), LAMBDA p : p # <<>> /\ p # <<".", ".">> /\ p # <<".">>)
        joined == join(kept)
    IN IF joined = <<".">> THEN <<>> ELSE joined

dirEntries == SelectSeq(entries, LAMBDA e : e.isDirectory)
fileEntries == SelectSeq(entries, LAMBDA e : ~e.isDirectory)

----------------------------------------------------------------------------
(* The archive analyzer                                                    *)

OS_LIMIT_WINDOWS == 260
OS_LIMIT_LINUX == 4096
OS_LIMIT_MACOS == 1024

\* Object.entries(OS_LIMITS), in insertion order
OS_LIMITS == << <<"windows", OS_LIMIT_WINDOWS>>, <<"linux", OS_LIMIT_LINUX>>,
                <<"macos", OS_LIMIT_MACOS>> >>

\* the character classes of INVALID_CHARS, in insertion order; U+0000 is in no
\* string of the model, which leaves the linux class without a member
INVALID_CHARS == << <<"windows", {"<", ">", ":", "\"", "|", "?", "*"} \cup ControlChars>>,
                    <<"macos", {":", "/"}>>,
                    <<"linux", {}>> >>

RESERVED_NAMES_WINDOWS ==
    {<<"C","O","N">>, <<"P","R","N">>, <<"A","U","X">>, <<"N","U","L">>}
    \cup {<<"C","O","M">> \o <<Digits[d + 1]>> : d \in 1..9}
    \cup {<<"L","P","T">> \o <<Digits[d + 1]>> : d \in 1..9}

RESERVED_NAME == <<"R","E","S","E","R","V","E","D","_","N","A","M","E">>

\* a mutant of isReservedName: the lookup without toUpperCase
isReservedName_exact(stem) == stem \in RESERVED_NAMES_WINDOWS

\* RESERVED_NAMES_WINDOWS.has(basename.toUpperCase())
isReservedName(stem) == toUpperCase(stem) \in RESERVED_NAMES_WINDOWS

\* the first occurrence of every element, in order: [...new Set(seq)]
RECURSIVE dedupe(_)
dedupe(seq) ==
    IF seq = <<>> THEN <<>>
    ELSE LET init == dedupe(SubSeq(seq, 1, Len(seq) - 1))
             last == seq[Len(seq)]
         IN IF \E k \in 1..Len(init) : init[k] = last THEN init ELSE Append(init, last)

\* seq.slice(0, n)
firstN(seq, n) == SubSeq(seq, 1, IF Len(seq) < n THEN Len(seq) ELSE n)

RECURSIVE sumOf(_)
sumOf(seq) == IF seq = <<>> THEN 0 ELSE seq[1] + sumOf(Tail(seq))

RECURSIVE flatten(_)
flatten(seqs) == IF seqs = <<>> THEN <<>> ELSE seqs[1] \o flatten(Tail(seqs))

contains(s, sub) == \E k \in 1..(Len(s) + 1) : OccursAt(s, sub, k)

\* the backslash-x escape of a control character, the character itself otherwise
charLabel(c) ==
    CASE c = "\t" -> <<"\\", "x", "0", "9">>
      [] c = "\n" -> <<"\\", "x", "0", "a">>
      [] c = "\r" -> <<"\\", "x", "0", "d">>
      [] OTHER -> <<c>>

checkPathLength(file) ==
    LET fullPath == file.originalName
        length == byteLength(fullPath)
        one(k) == IF length > OS_LIMITS[k][2]
                  THEN << [path |-> fullPath, length |-> length,
                           os |-> OS_LIMITS[k][1], limit |-> OS_LIMITS[k][2]] >>
                  ELSE <<>>
    IN flatten([k \in 1..Len(OS_LIMITS) |-> one(k)])

checkInvalidChars(file) ==
    LET filename == file.originalName
        one(k) == LET matches == SelectSeq(filename, LAMBDA c : c \in INVALID_CHARS[k][2]) IN
                  IF matches # <<>>
                  THEN << [path |-> filename,
                           invalidChars |-> dedupe([j \in 1..Len(matches) |-> charLabel(matches[j])]),
                           os |-> INVALID_CHARS[k][1]] >>
                  ELSE <<>>
        stem == basenameExt(filename, extname(filename))
        reserved == IF isReservedName(stem)
                    THEN << [path |-> filename, invalidChars |-> <<RESERVED_NAME>>,
                             os |-> "windows"] >>
                    ELSE <<>>
    IN flatten([k \in 1..Len(INVALID_CHARS) |-> one(k)]) \o reserved


\* s.normalize("NFD") and s.normalize("NFC") over the characters of the model,
\* computed by halves to keep the evaluation shallow on long paths
RECURSIVE normalizeNFD(_)
normalizeNFD(s) ==
    IF s = <<>> THEN <<>>
    ELSE IF Len(s) = 1
         THEN IF s[1] \in Range(AcuteComposed)
              THEN <<AcuteBase[IndexIn(AcuteComposed, s[1])], CombiningAcute>>
              ELSE s
         ELSE LET mid == Len(s) \div 2
              IN normalizeNFD(SubSeq(s, 1, mid)) \o normalizeNFD(SubSeq(s, mid + 1, Len(s)))

RECURSIVE normalizeNFC(_)
normalizeNFC(s) ==
    IF Len(s) <= 1 THEN s
    ELSE IF Len(s) = 2
         THEN IF s[1] \in Range(AcuteBase) /\ s[2] = CombiningAcute
              THEN <<AcuteComposed[IndexIn(AcuteBase, s[1])]>>
              ELSE s
         ELSE LET half == Len(s) \div 2
                  \* never cut between a letter and its accent
                  mid == IF s[half + 1] = CombiningAcute THEN half + 1 ELSE half
              IN normalizeNFC(SubSeq(s, 1, mid)) \o normalizeNFC(SubSeq(s, mid + 1, Len(s)))

\* Buffer.from(filename, "utf8").toString("utf8") does not throw: the catch
\* branch with invalid_sequence is never taken
checkUnicode(file) ==
    LET filename == file.originalName
        nfc == normalizeNFC(filename)
        nfd == normalizeNFD(filename)
    IN IF nfc # nfd /\ filename # nfc
       THEN << [path |-> filename, issue |-> "nfc_nfd_mismatch"] >>
       ELSE <<>>

nonDirectories(files) == SelectSeq(files, LAMBDA f : ~f.isDirectory)

\* the text of s before the first "::", s.split("::")[0]
beforeDoubleColon(s) ==
    LET P == {k \in 1..Len(s) : OccursAt(s, <<":", ":">>, k)} IN
    IF P = {} THEN s ELSE SubSeq(s, 1, SetMin(P) - 1)

duplicateKey(originalName) ==
    dirname(originalName) \o <<":", ":">> \o toLowerCase(basename(originalName))

detectDuplicates(files) ==
    LET fs == nonDirectories(files)
        keys == dedupe([k \in 1..Len(fs) |-> duplicateKey(fs[k].originalName)])
        pathsOf(key) == LET hit == SelectSeq(fs, LAMBDA f : duplicateKey(f.originalName) = key)
                        IN [k \in 1..Len(hit) |-> hit[k].originalName]
        one(key) == LET paths == pathsOf(key)
                        dir == beforeDoubleColon(key) IN
                    IF Len(paths) > 1
                    THEN << [directory |-> IF dir = <<>> THEN <<"/">> ELSE dir,
                             filename |-> basename(paths[1]),
                             count |-> Len(paths),
                             paths |-> firstN(paths, 10)] >>
                    ELSE <<>>
    IN flatten([k \in 1..Len(keys) |-> one(keys[k])])

\* /\/__MACOSX\//, /\.DS_Store$/, /Thumbs\.db$/i, /desktop\.ini$/i, /\/\.git\//
SYSTEM_FILE_TYPES == <<"__MACOSX", ".DS_Store", "Thumbs.db", "desktop.ini", ".git">>

systemPatternTest(type, name) ==
    CASE type = "__MACOSX" -> contains(name, <<"/","_","_","M","A","C","O","S","X","/">>)
      [] type = ".DS_Store" -> endsWith(name, <<".","D","S","_","S","t","o","r","e">>)
      [] type = "Thumbs.db" -> endsWith(toLowerCase(name), <<"t","h","u","m","b","s",".","d","b">>)
      [] type = "desktop.ini" ->
            endsWith(toLowerCase(name), <<"d","e","s","k","t","o","p",".","i","n","i">>)
      [] type = ".git" -> contains(name, <<"/",".","g","i","t","/">>)

\* a mutant of SystemFilesCap: slice(0, 21)
SystemFilesCap_off == 20 + 1

SystemFilesCap == 20
ConflictsCap == 10

\* a mutant of isCaseConflict: the test without the Set of spellings
isCaseConflict_lengthOnly(originals) == Len(originals) > 1

\* originals.length > 1 && new Set(originals).size > 1
isCaseConflict(originals) == Len(originals) > 1 /\ Cardinality(Range(originals)) > 1

detectSystemFiles(files) ==
    LET one(file) ==
            LET T == {k \in 1..Len(SYSTEM_FILE_TYPES) :
                        systemPatternTest(SYSTEM_FILE_TYPES[k], file.originalName)} IN
            IF T = {} THEN <<>>
            ELSE << [path |-> file.originalName, type |-> SYSTEM_FILE_TYPES[SetMin(T)]] >>
    IN firstN(flatten([k \in 1..Len(files) |-> one(files[k])]), SystemFilesCap)

simulateRenameConflicts(files) ==
    LET fs == nonDirectories(files)
        dirs == dedupe([k \in 1..Len(fs) |-> dirname(fs[k].originalName)])
        inDir(dir) == SelectSeq(fs, LAMBDA f : dirname(f.originalName) = dir)
        lowerNames(dir) == LET in == inDir(dir) IN
            dedupe([k \in 1..Len(in) |-> toLowerCase(basename(in[k].originalName))])
        originalsOf(dir, lowerName) ==
            LET hit == SelectSeq(inDir(dir),
                                 LAMBDA f : toLowerCase(basename(f.originalName)) = lowerName)
            IN [k \in 1..Len(hit) |-> basename(hit[k].originalName)]
        one(dir, lowerName) ==
            LET originals == originalsOf(dir, lowerName) IN
            IF isCaseConflict(originals)
            THEN << [directory |-> dir, conflictingFiles |-> originals,
                     resultName |-> lowerName, count |-> Len(originals),
                     type |-> "case_sensitivity"] >>
            ELSE <<>>
        ofDir(dir) == LET ln == lowerNames(dir) IN flatten([k \in 1..Len(ln) |-> one(dir, ln[k])])
    IN firstN(flatten([k \in 1..Len(dirs) |-> ofDir(dirs[k])]), ConflictsCap)

\* a mutant of calculateSeverity: >= 5 in place of > 5
calculateSeverity_atLeast5(w) ==
    IF Len(w.renameConflicts) > 0 THEN "critical"
    ELSE IF Len(w.pathTooLong) >= 5 \/ Len(w.invalidChars) >= 5 THEN "high"
    ELSE IF Len(w.duplicateNames) > 0 \/ Len(w.unicodeIssues) > 0 THEN "medium"
    ELSE IF Len(w.systemFiles) > 0 THEN "low"
    ELSE "none"

calculateSeverity(w) ==
    IF Len(w.renameConflicts) > 0 THEN "critical"
    ELSE IF Len(w.pathTooLong) > 5 \/ Len(w.invalidChars) > 5 THEN "high"
    ELSE IF Len(w.duplicateNames) > 0 \/ Len(w.unicodeIssues) > 0 THEN "medium"
    ELSE IF Len(w.systemFiles) > 0 THEN "low"
    ELSE "none"

\* largestFile is the first file of the largest size
calculateStats(files) ==
    LET fs == nonDirectories(files)
        sizeOf(f) == IF Has(f, "size") THEN f.size ELSE 0
        sizes == [k \in 1..Len(fs) |-> sizeOf(fs[k])]
        depthOf(f) == Len(split(f.originalName)) - 1
        largest == IF fs = <<>> THEN [path |-> <<>>, size |-> 0]
                   ELSE LET m == SetMax(Range(sizes))
                            k == SetMin({j \in 1..Len(fs) : sizes[j] = m})
                        IN [path |-> fs[k].originalName, size |-> m]
    IN [totalFiles |-> Len(fs),
        totalDirectories |-> Len(files) - Len(fs),
        totalSize |-> sumOf(sizes),
        maxDepth |-> SetMax({0} \cup {depthOf(files[k]) : k \in 1..Len(files)}),
        largestFile |-> largest]

\* the report without its timestamp
analyzeArchive(files) ==
    LET fs == nonDirectories(files)
        warnings ==
            [renameConflicts |-> simulateRenameConflicts(files),
             pathTooLong |-> flatten([k \in 1..Len(fs) |-> checkPathLength(fs[k])]),
             duplicateNames |-> detectDuplicates(files),
             invalidChars |-> flatten([k \in 1..Len(fs) |-> checkInvalidChars(fs[k])]),
             unicodeIssues |-> flatten([k \in 1..Len(fs) |-> checkUnicode(fs[k])]),
             systemFiles |-> detectSystemFiles(files)]
    IN [stats |-> calculateStats(files), warnings |-> warnings,
        severity |-> calculateSeverity(warnings)]

\* analyzeArchive raises: calculateStats calls file.originalName.split("/") for
\* every file and directory, a TypeError when the entry has no originalName
analyzeArchiveRaises(files) == \E k \in 1..Len(files) : ~Has(files[k], "originalName")

----------------------------------------------------------------------------
(* The archives and the rule groups the requests are drawn from             *)

a_jpg == <<"a", ".", "j", "p", "g">>
b_jpg == <<"b", ".", "j", "p", "g">>
a_TXT == <<"a", ".", "T", "X", "T">>
B_TXT == <<"B", ".", "T", "X", "T">>
Photos == <<"P", "h", "o", "t", "o", "s", "/">>
Photos_img == Photos \o <<"i", "m", "g", ".", "j", "p", "g">>
Top_Photos == <<"T", "o", "p", "/">> \o Photos
Top_Photos_img == <<"T", "o", "p", "/">> \o Photos_img
File_txt == <<"F", "i", "l", "e", ".", "t", "x", "t">>
file_txt == <<"f", "i", "l", "e", ".", "t", "x", "t">>
CON_txt == <<"C", "O", "N", ".", "t", "x", "t">>
d_aux == <<"d", "?", "/", "a", "u", "x">>
COM0_txt == <<"C", "O", "M", "0", ".", "t", "x", "t">>
dotdot_dir == <<".", ".", "/">>
a_dotdot_b_dir == <<"a", "/", ".", ".", "/", "b", "/">>
a_slashslash_d == <<"a", "/", "/", "d", ".", "t", "x", "t">>
dotdot_file == <<".", ".">>
a_dollars_dir == <<"a", "/", "$", "$", "/">>
a_dollars_f == <<"a", "/", "$", "$", "/", "f", ".", "t", "x", "t">>
Top_Photos_Sub == Top_Photos \o <<"S", "u", "b", "/">>
Top_Photos_Sub_f == Top_Photos_Sub \o <<"f", ".", "t", "x", "t">>
MACOSX == <<"_", "_", "M", "A", "C", "O", "S", "X">>
MACOSX_file == MACOSX \o <<"/", ".", "_", "f", "i", "l", "e", ".", "t", "x", "t">>
a_MACOSX_b == <<"a", "/">> \o MACOSX \o <<"/", ".", "_", "b">>

My_File_txt == <<" ", "M", "y", " ", " ", "F", "i", "l", "e", ".", "t", "x", "t">>
a_b_colons_c == <<"a", "/", "b", ":", ":", "c">>
a_colons_b_C == <<"a", ":", ":", "b", "/", "C">>
a_colons_b_c == <<"a", ":", ":", "b", "/", "c">>
Top_readme == <<"T", "o", "p", "/", "r", "e", "a", "d", "m", "e">>
Top_v1_2 == <<"T", "o", "p", "/", "v", "1", ".", "2", "/">>

\* adm-zip marks as a directory the entry whose name ends with a slash
isDirectoryName(name) == name # <<>> /\ name[Len(name)] = "/"

\* a zip entry; every file of the model holds one byte
Entry(name) == [entryName |-> name, isDirectory |-> isDirectoryName(name),
                size |-> IF isDirectoryName(name) THEN 0 ELSE 1]

SeqsUpTo(S, n) == UNION {[1..k -> S] : k \in 0..n}

repeat(c, n) == [k \in 1..n |-> c]

\* n files without an issue: docs/f1.txt, docs/f2.txt, ...
cleanFamily(n) ==
    [k \in 1..n |-> Entry(<<"d", "o", "c", "s", "/", "f">> \o String(k) \o <<".", "t", "x", "t">>)]

\* n pairs of files that differ in case only: F1, f1, F2, f2, ...
conflictFamily(n) ==
    [k \in 1..(2 * n) |-> Entry(<<IF k % 2 = 1 THEN "F" ELSE "f">> \o String((k + 1) \div 2))]

\* n system files: d1/.DS_Store, d2/.DS_Store, ...
systemFamily(n) ==
    [k \in 1..n |-> Entry(<<"d">> \o String(k) \o <<"/", ".", "D", "S", "_", "S", "t", "o", "r", "e">>)]

\* single files with a long path
LongPaths == {repeat("a", 260), repeat("a", 261), repeat("a", 300), repeat("é", 150),
              repeat("€", 100), repeat("a", 1025)}

ArchiveFamilies ==
    {conflictFamily(n) : n \in 1..MaxConflictGroups}
    \cup {systemFamily(n) : n \in 1..MaxSystemFiles}
    \cup {cleanFamily(n) : n \in 1..MaxCleanFiles}
    \cup {<<Entry(p)>> : p \in LongPaths}

new_ == <<"n", "e", "w", "_">>
dot_txt == <<".", "t", "x", "t">>

NumberingRules ==
    {[type |-> "numbering", start |-> 1, padding |-> 3, separator |-> <<"_">>, position |-> "end"],
     [type |-> "numbering", start |-> 0, padding |-> 1, separator |-> <<"_">>, position |-> "end"],
     [type |-> "numbering", start |-> 9, padding |-> 2, separator |-> <<"_">>, position |-> "start"],
     [type |-> "numbering"]}

NumberingGroups == {[id |-> "g1", scope |-> "global", rules |-> <<r>>] : r \in NumberingRules}

PrefixFolders == [id |-> "g2", scope |-> "folders", rules |-> <<[type |-> "prefix", text |-> new_]>>]

LowercaseTxt == [id |-> "g3", scope |-> "extension", scopeValue |-> dot_txt,
                 rules |-> <<[type |-> "lowercase"]>>]

PrefixFoldersDotDot == [id |-> "g4", scope |-> "folders",
                        rules |-> <<[type |-> "prefix", text |-> <<".", ".", "/">>]>>]

ReplaceByDotSlash == [id |-> "g5", scope |-> "global",
                      rules |-> <<[type |-> "replace", find |-> <<"a">>,
                                   replace |-> <<".", "/">>]>>]

\* a group without a scope, a group of scope folder and an extension group
\* with exclude
SuffixAll == [id |-> "g6", rules |-> <<[type |-> "suffix", text |-> <<"_", "x">>]>>]

PrefixInPhotos == [id |-> "g7", scope |-> "folder",
                   scopeValue |-> <<"P", "h", "o", "t", "o", "s">>,
                   rules |-> <<[type |-> "prefix", text |-> new_]>>]

UppercaseNotTxt == [id |-> "g8", scope |-> "extension", scopeValue |-> dot_txt,
                    exclude |-> TRUE, rules |-> <<[type |-> "uppercase"]>>]

SuffixFolders == [id |-> "g14", scope |-> "folders",
                  rules |-> <<[type |-> "suffix", text |-> <<"_", "x">>]>>]

\* two rules in both orders; rules of the types the spec does not list; a
\* pattern rule
PrefixThenUppercase == [id |-> "g15", scope |-> "global",
                        rules |-> <<[type |-> "prefix", text |-> new_], [type |-> "uppercase"]>>]

UppercaseThenPrefix == [id |-> "g15", scope |-> "global",
                        rules |-> <<[type |-> "uppercase"], [type |-> "prefix", text |-> new_]>>]

KebabThenSuffix == [id |-> "g16", scope |-> "global",
                    rules |-> <<[type |-> "kebab_case"],
                                [type |-> "suffix", text |-> <<"_", "x">>]>>]

TrimNormalizeRegex == [id |-> "g17", scope |-> "global",
                       rules |-> <<[type |-> "trim"], [type |-> "normalize_space"],
                                   [type |-> "regex", pattern |-> <<"F">>,
                                    replace |-> <<"g">>]>>]

\* pattern rules: "{name}_{index}" and "{parent}_{depth}.{ext}"
PatternNameIndex ==
    [id |-> "g18", scope |-> "global",
     rules |-> <<[type |-> "pattern",
                  pattern |-> <<"{", "n", "a", "m", "e", "}", "_", "{", "i", "n", "d", "e", "x", "}">>]>>]

PatternParentDepthExt ==
    [id |-> "g19", scope |-> "global",
     rules |-> <<[type |-> "pattern",
                  pattern |-> <<"{", "p", "a", "r", "e", "n", "t", "}", "_", "{", "d", "e", "p", "t", "h", "}", ".", "{", "e", "x", "t", "}">>]>>]

PatternNameDate ==
    [id |-> "g23", scope |-> "global",
     rules |-> <<[type |-> "pattern",
                  pattern |-> <<"{", "n", "a", "m", "e", "}", "_", "{", "d", "a", "t", "e", "}">>]>>]

\* the last instant of a day and the first of the next
BeforeMidnight ==
    [year |-> 2026, month |-> 10, day |-> 29, hour |-> 23, minute |-> 59, second |-> 59, ms |-> 999]
AfterMidnight ==
    [year |-> 2026, month |-> 10, day |-> 30, hour |-> 0, minute |-> 0, second |-> 0, ms |-> 0]

\* instants the clock of the page can show, by their UTC fields, in the order
\* of time
Instants ==
    <<BeforeMidnight,
      AfterMidnight,
      [year |-> 2027, month |-> 1, day |-> 1, hour |-> 12, minute |-> 0, second |-> 0, ms |-> 0]>>
Clocks == Range(Instants)

\* the clocks of a page that reads the clock n times: every sequence of n
\* instants that never goes back in time, given by the reads c[1] <= c[2]
\* after which the clock has moved on to the next instant
ClockRuns(n) ==
    IF n = 0 THEN {<<Instants[1]>>}
    ELSE {[k \in 1..n |-> Instants[1 + Cardinality({i \in 1..2 : c[i] < k})]] :
             c \in {c \in (0..n) \X (0..n) : c[1] <= c[2]}}

PatternDateTwice ==
    [id |-> "g24", scope |-> "global",
     rules |-> <<[type |-> "pattern", pattern |-> <<"{", "d", "a", "t", "e", "}">>],
                 [type |-> "pattern",
                  pattern |-> <<"{", "n", "a", "m", "e", "}", "_", "{", "d", "a", "t", "e", "}">>]>>]

\* numbering in a group of scope folder, which matches files and directories
NumberInTop == [id |-> "g21", scope |-> "folder", scopeValue |-> <<"T", "o", "p">>,
                rules |-> <<[type |-> "numbering"]>>]

\* a rule that empties the stem of a.jpg
RemoveA == [id |-> "g22", scope |-> "global",
            rules |-> <<[type |-> "replace", find |-> <<"a">>, replace |-> <<>>]>>]

\* a group of scope folder whose folder is a nested directory
PrefixInTopPhotos == [id |-> "g13", scope |-> "folder",
                      scopeValue |-> <<"T", "o", "p", "/", "P", "h", "o", "t", "o", "s">>,
                      rules |-> <<[type |-> "prefix", text |-> new_]>>]

\* malformed groups and rules: a null rule before a suffix rule; rules of an
\* unknown type, without a type and without their fields before a suffix rule;
\* a group without rules
NullRuleGroup == [id |-> "g9", scope |-> "global",
                  rules |-> <<Null, [type |-> "suffix", text |-> <<"_", "x">>]>>]

OddRulesGroup == [id |-> "g10", scope |-> "global",
                  rules |-> <<[type |-> "frobnicate"], [text |-> new_], [type |-> "prefix"],
                              [type |-> "replace"], [type |-> "suffix", text |-> <<"_", "x">>]>>]

NoRulesGroup == [id |-> "g11", scope |-> "global"]

\* numbering with the defaults, in a group without a scope and in a global
\* group of the same id
NumberAll == [id |-> "g12", rules |-> <<[type |-> "numbering"]>>]
NumberGlobalSameId == [id |-> "g12", scope |-> "global", rules |-> <<[type |-> "numbering"]>>]

\* requests with a listing of three entries: two groups that share an id; a
\* directory inside a renamed directory, listed after it and listed before it
FixedRequests ==
    {[entries |-> <<Entry(Top_Photos), Entry(Top_Photos_img), Entry(a_jpg)>>,
      groups |-> <<NumberAll, NumberGlobalSameId>>],
     [entries |-> <<Entry(a_jpg), Entry(Top_Photos_img), Entry(Top_Photos)>>,
      groups |-> <<NumberGlobalSameId, NumberAll>>],
     [entries |-> <<Entry(Top_Photos), Entry(Top_Photos_Sub), Entry(Top_Photos_Sub_f)>>,
      groups |-> <<PrefixFolders>>],
     [entries |-> <<Entry(Top_Photos_Sub), Entry(Top_Photos), Entry(Top_Photos_Sub_f)>>,
      groups |-> <<PrefixFolders>>],
     [entries |-> <<Entry(Top_readme), Entry(Top_Photos)>>,
      groups |-> <<NumberInTop>>],
     [entries |-> <<Entry(a_jpg), Entry(b_jpg)>>,
      groups |-> <<RemoveA, SuffixAll>>],
     [entries |-> <<Entry(a_jpg), Entry(File_txt)>>,
      groups |-> <<SuffixAll, UppercaseThenPrefix>>]}

\* the requests: an archive listing over the paths of a scenario with rule
\* groups over the groups of the same scenario
Scenarios ==
    {[paths |-> {a_jpg, b_jpg, Top_Photos, Top_Photos_img},
      groups |-> NumberingGroups \cup {NumberAll}],
     [paths |-> {Photos, Photos_img, Top_Photos, Top_Photos_img, a_dollars_dir, a_dollars_f},
      groups |-> {PrefixFolders}],
     [paths |-> {a_TXT, B_TXT, a_jpg, file_txt},
      groups |-> {LowercaseTxt}],
     [paths |-> {dotdot_dir, a_dotdot_b_dir, a_slashslash_d, dotdot_file, a_jpg},
      groups |-> {PrefixFoldersDotDot, ReplaceByDotSlash}],
     [paths |-> {File_txt, file_txt, CON_txt, d_aux, COM0_txt, Photos_img, MACOSX_file,
                 a_MACOSX_b},
      groups |-> {}],
     [paths |-> {Photos, Photos_img, a_jpg, file_txt},
      groups |-> {SuffixAll, PrefixInPhotos, UppercaseNotTxt}],
     [paths |-> {a_jpg, Top_Photos, Top_Photos_img},
      groups |-> {Null, NullRuleGroup, OddRulesGroup, NoRulesGroup}],
     [paths |-> {a_jpg, Top_Photos, Top_Photos_img},
      groups |-> {PrefixInTopPhotos}],
     [paths |-> {Top_v1_2, Top_Photos, a_jpg},
      groups |-> {SuffixFolders}],
     [paths |-> {a_b_colons_c, a_colons_b_c, a_colons_b_C, File_txt, file_txt, Top_Photos_img},
      groups |-> {}],
     [paths |-> {a_jpg, Top_Photos_img, Top_Photos},
      groups |-> {PatternNameIndex, PatternParentDepthExt}],
     [paths |-> {a_jpg},
      groups |-> {PatternNameDate, PatternDateTwice}],
     [paths |-> {File_txt, My_File_txt, Top_Photos_img},
      groups |-> {PrefixThenUppercase, UppercaseThenPrefix, KebabThenSuffix,
                  TrimNormalizeRegex, OddRulesGroup}]}

EmptyWarnings ==
    [renameConflicts |-> <<>>, pathTooLong |-> <<>>, duplicateNames |-> <<>>,
     invalidChars |-> <<>>, unicodeIssues |-> <<>>, systemFiles |-> <<>>]

EmptyStats == [totalFiles |-> 0, totalDirectories |-> 0, totalSize |-> 0, maxDepth |-> 0,
               largestFile |-> [path |-> <<>>, size |-> 0]]

NoReport == [stats |-> EmptyStats, warnings |-> EmptyWarnings, severity |-> ""]

----------------------------------------------------------------------------
(* The request sequence: /api/analyze stores the archive and lists it, the  *)
(* listing is handed to analyzeArchive, /api/process renames the archive in *)
(* two phases and sends the new one.  zipOnDisk, metaOnDisk and timerArmed  *)
(* describe the temp file of the last upload; the timer firing is part of   *)
(* SpecLifecycle.                                                          *)

NoScope == [name |-> <<>>, isDirectory |-> FALSE, group |-> Null]
NoVerdict == [server |-> FALSE, client |-> FALSE]
NoAnalysis == [raised |-> FALSE, report |-> NoReport]
NoPreviews == [computed |-> FALSE, threw |-> FALSE, names |-> <<>>]

Init ==
    /\ \/ \E sc \in Scenarios :
             /\ entries \in SeqsUpTo({Entry(p) : p \in sc.paths}, MaxEntries)
             /\ groups \in SeqsUpTo(sc.groups, MaxGroups)
       \/ entries \in ArchiveFamilies /\ groups = <<>>
       \/ \E rq \in FixedRequests : entries = rq.entries /\ groups = rq.groups
    /\ pc = "uploaded"
    /\ di = 0
    /\ fi = 0
    /\ groupCounters = <<>>
    /\ folderRenameMap = <<>>
    /\ newZip = <<>>
    /\ handed = <<>>
    /\ sent = <<>>
    /\ report = NoReport
    /\ warningsIn = EmptyWarnings
    /\ severityOut = ""
    /\ scopeIn = NoScope
    /\ scopeOut = NoVerdict
    /\ previews = NoPreviews
    /\ zipOnDisk = FALSE
    /\ metaOnDisk = FALSE
    /\ timerArmed = FALSE
    /\ answers = <<>>
    /\ filesIn = <<>>
    /\ analysisOut = NoAnalysis

\* a mutant of cleanup: the .meta file is left behind
cleanup_leavesMeta(zip, meta) == [zip |-> FALSE, meta |-> meta]

\* cleanup(filePath): the archive and its .meta file afterwards
cleanup(zip, meta) ==
    IF zip THEN [zip |-> FALSE, meta |-> FALSE] ELSE [zip |-> zip, meta |-> meta]

answered(route, status) == Append(answers, [route |-> route, status |-> status])

\* the files array of /api/analyze
filesOf(es) == [k \in 1..Len(es) |-> [originalName |-> es[k].entryName,
                                      size |-> es[k].size,
                                      isDirectory |-> es[k].isDirectory,
                                      index |-> k - 1]]

\* POST /api/analyze on a readable archive: the archive stays in the temp
\* directory, its .meta file is written, the listing filesOf(entries) is
\* answered and the timer is armed; the answer holds no analysis
Analyze ==
    /\ pc = "uploaded"
    /\ zipOnDisk' = TRUE
    /\ metaOnDisk' = TRUE
    /\ timerArmed' = TRUE
    /\ answers' = answered("analyze", 200)
    /\ pc' = "listed"
    /\ UNCHANGED <<entries, groups, requestVars, sent, report, severityVars, scopeVars, previews,
                   analyzerVars>>

\* analyzeArchive(files) of the analysis library, called on the listing
AnalyzeListing ==
    /\ pc = "listed"
    /\ report' = analyzeArchive(filesOf(entries))
    /\ pc' = "analyzed"
    /\ UNCHANGED <<entries, groups, requestVars, sent, severityVars, scopeVars, previews, storeVars,
                   analyzerVars>>

\* a mutant of freshCounters: the counters keep the values of the request before
freshCounters_carried ==
    [id \in {groupId(groups[k]) : k \in 1..Len(groups)} |-> counterOf(groupCounters, id)]

\* const groupCounters = {}; groups.forEach(g => { groupCounters[g.id] = 0; })
freshCounters == [id \in {groupId(groups[k]) : k \in 1..Len(groups)} |-> 0]

\* the start of /api/process up to the two phases; g.id of a null group raises a
\* TypeError, which the catch answers with status 500
BeginProcess ==
    /\ pc = "analyzed"
    /\ IF \E k \in 1..Len(groups) : isNull(groups[k])
       THEN /\ pc' = "error"
            /\ UNCHANGED groupCounters
       ELSE /\ pc' = "renaming"
            /\ groupCounters' = freshCounters
    /\ answers' = IF pc' = "error" THEN answered("process", 500) ELSE answers
    /\ UNCHANGED <<entries, groups, di, fi, folderRenameMap, newZip, handed, sent, report,
                   severityVars, scopeVars, previews, zipOnDisk, metaOnDisk, timerArmed,
                   analyzerVars>>

\* PHASE 1, one directory entry
RenameDirectory ==
    /\ pc = "renaming"
    /\ di < Len(dirEntries)
    /\ LET entry == dirEntries[di + 1]
           normalizedName == normalizeSlashes(entry.entryName)
           dirPath == IF endsWith(normalizedName, <<"/">>)
                      THEN SubSeq(normalizedName, 1, Len(normalizedName) - 1)
                      ELSE normalizedName
           lastSlash == lastIndexOf(dirPath, "/")
       IN IF isTopLevelFolder(dirPath)
          THEN /\ newZip' = Append(newZip, [originalName |-> entry.entryName,
                                            finalPath |-> dirPath \o <<"/">>,
                                            isDirectory |-> TRUE])
               /\ di' = di + 1
               /\ UNCHANGED <<pc, groupCounters, folderRenameMap, handed>>
          ELSE LET parentPath == slice(dirPath, 0, lastSlash + 1)
                   folderName == slice(dirPath, lastSlash + 1, Len(dirPath))
                   st == groupLoop(groups, 1,
                                   [name |-> folderName, counters |-> groupCounters,
                                    handed |-> handed, threw |-> FALSE],
                                   normalizedName, TRUE)
                   oldPath == dirPath \o <<"/">>
                   newPath == parentPath \o st.name \o <<"/">>
               IN /\ groupCounters' = st.counters
                  /\ handed' = st.handed
                  /\ IF st.threw
                     THEN /\ pc' = "error"
                          /\ UNCHANGED <<di, folderRenameMap, newZip>>
                     ELSE /\ folderRenameMap' = mapSet(folderRenameMap, oldPath, newPath)
                          /\ newZip' = Append(newZip, [originalName |-> entry.entryName,
                                                       finalPath |-> newPath,
                                                       isDirectory |-> TRUE])
                          /\ di' = di + 1
                          /\ UNCHANGED pc
    /\ answers' = IF pc' = "error" THEN answered("process", 500) ELSE answers
    /\ UNCHANGED <<entries, groups, fi, sent, report, severityVars, scopeVars, previews,
                   zipOnDisk, metaOnDisk, timerArmed, analyzerVars>>

\* PHASE 2, one file entry
RenameFile ==
    /\ pc = "renaming"
    /\ di = Len(dirEntries)
    /\ fi < Len(fileEntries)
    /\ LET entry == fileEntries[fi + 1]
           normalizedName == rewriteByFolderMap(folderRenameMap, normalizeSlashes(entry.entryName))
           dir == dirname(normalizedName)
           st == groupLoop(groups, 1,
                           [name |-> basename(normalizedName),
                            counters |-> groupCounters, handed |-> handed, threw |-> FALSE],
                           normalizedName, FALSE)
           safeDir == safeDirOf(dir)
           finalPath == IF safeDir # <<>> THEN safeDir \o <<"/">> \o st.name
                        ELSE st.name
       IN /\ groupCounters' = st.counters
          /\ handed' = st.handed
          /\ IF st.threw
             THEN /\ pc' = "error"
                  /\ UNCHANGED <<fi, newZip>>
             ELSE /\ newZip' = Append(newZip, [originalName |-> entry.entryName,
                                               finalPath |-> normalizeSlashes(finalPath),
                                               isDirectory |-> FALSE])
                  /\ fi' = fi + 1
                  /\ UNCHANGED pc
    /\ answers' = IF pc' = "error" THEN answered("process", 500) ELSE answers
    /\ UNCHANGED <<entries, groups, di, folderRenameMap, sent, report, severityVars, scopeVars,
                   previews, zipOnDisk, metaOnDisk, timerArmed, analyzerVars>>

\* res.send(buffer), then cleanup(filePath)
SendZip ==
    /\ pc = "renaming"
    /\ di = Len(dirEntries)
    /\ fi = Len(fileEntries)
    /\ pc' = "done"
    /\ sent' = Append(sent, newZip)
    /\ answers' = answered("process", 200)
    /\ zipOnDisk' = cleanup(zipOnDisk, metaOnDisk).zip
    /\ metaOnDisk' = cleanup(zipOnDisk, metaOnDisk).meta
    /\ UNCHANGED <<entries, groups, requestVars, report, severityVars, scopeVars, previews,
                   timerArmed, analyzerVars>>

\* the same archive is uploaded again and the same rule groups are sent again:
\* the locals of the request before are gone; groupCounters is assigned when
\* the next request starts
UploadAgain ==
    /\ pc = "done"
    /\ Len(sent) < MaxRuns
    /\ pc' = "uploaded"
    /\ di' = 0
    /\ fi' = 0
    /\ folderRenameMap' = <<>>
    /\ newZip' = <<>>
    /\ handed' = <<>>
    /\ report' = NoReport
    /\ previews' = NoPreviews
    /\ UNCHANGED <<entries, groups, groupCounters, sent, severityVars, scopeVars, storeVars, analyzerVars>>

\* the reads of the clock one run of updatePreviews can make: one for every
\* file and every pattern rule with a pattern
clockReads(files, ruleGroups) ==
    LET readsOf(group) ==
            IF Has(group, "rules")
            THEN Cardinality({r \in 1..Len(group.rules) :
                                 /\ AtomField(group.rules[r], "type") = "pattern"
                                 /\ StrField(group.rules[r], "pattern") # <<>>})
            ELSE 0
        upTo[k \in 0..Len(ruleGroups)] ==
            IF k = 0 THEN 0 ELSE upTo[k - 1] + readsOf(ruleGroups[k])
    IN Len(files) * upTo[Len(ruleGroups)]

\* the client has the files of /api/analyze and its rule groups: updatePreviews(),
\* under every clock its reads can meet
UpdatePreviews ==
    /\ pc = "analyzed"
    /\ ~previews.computed
    /\ \E clock \in ClockRuns(clockReads(filesOf(entries), groups)) :
          previews' = LET p == updatePreviews(filesOf(entries), groups, clock)
                      IN [computed |-> TRUE, threw |-> p.threw, names |-> p.names]
    /\ UNCHANGED <<entries, groups, pc, requestVars, sent, report, severityVars, scopeVars,
                   storeVars, analyzerVars>>

Next ==
    \/ Analyze
    \/ AnalyzeListing
    \/ UpdatePreviews
    \/ BeginProcess
    \/ RenameDirectory
    \/ RenameFile
    \/ SendZip
    \/ UploadAgain

Spec == Init /\ [][Next]_vars

----------------------------------------------------------------------------
(* calculateSeverity as a function of the six warning arrays               *)

warningArray(n) == [k \in 1..n |-> k]

InitSeverity ==
    /\ \E c \in 0..MaxFew, p \in 0..MaxMany, d \in 0..MaxFew, i \in 0..MaxMany,
          u \in 0..MaxFew, s \in 0..MaxFew :
          warningsIn = [renameConflicts |-> warningArray(c), pathTooLong |-> warningArray(p),
                        duplicateNames |-> warningArray(d), invalidChars |-> warningArray(i),
                        unicodeIssues |-> warningArray(u), systemFiles |-> warningArray(s)]
    /\ pc = "severity"
    /\ entries = <<>>
    /\ groups = <<>>
    /\ di = 0
    /\ fi = 0
    /\ groupCounters = <<>>
    /\ folderRenameMap = <<>>
    /\ newZip = <<>>
    /\ handed = <<>>
    /\ sent = <<>>
    /\ report = NoReport
    /\ severityOut = ""
    /\ scopeIn = NoScope
    /\ scopeOut = NoVerdict
    /\ previews = NoPreviews
    /\ zipOnDisk = FALSE
    /\ metaOnDisk = FALSE
    /\ timerArmed = FALSE
    /\ answers = <<>>
    /\ filesIn = <<>>
    /\ analysisOut = NoAnalysis

ClassifySeverity ==
    /\ pc = "severity"
    /\ severityOut' = calculateSeverity(warningsIn)
    /\ pc' = "classified"
    /\ UNCHANGED <<entries, groups, requestVars, sent, report, warningsIn, scopeVars, previews, storeVars, analyzerVars>>

NextSeverity == ClassifySeverity

SpecSeverity == InitSeverity /\ [][NextSeverity]_vars

----------------------------------------------------------------------------
(* The scope check as a function of one entry and one group, as the server  *)
(* and as the client compute it                                            *)

dotfile_txt == <<".", "t", "x", "t">>
Top_v1_txt_dir == <<"T", "o", "p", "/", "v", "1", ".", "t", "x", "t", "/">>
a_tar_txt == <<"a", ".", "t", "a", "r", ".", "t", "x", "t">>

ScopeNames == {a_jpg, a_TXT, file_txt, a_tar_txt, dotfile_txt, Top_readme, Photos, Photos_img,
               Top_Photos, Top_Photos_img, Top_v1_txt_dir}

ScopeValues == {dot_txt, <<"t", "x", "t">>, <<"T", "X", "T">>, <<".", "J", "p", "g">>,
                <<"r", "e", "a", "d", "m", "e">>, <<>>}

ExtensionGroups ==
    LET withValue == {[id |-> "g20", scope |-> "extension", scopeValue |-> v,
                       rules |-> <<[type |-> "uppercase"]>>] : v \in ScopeValues}
                     \cup {[id |-> "g20", scope |-> "extension",
                            rules |-> <<[type |-> "uppercase"]>>]}
    IN withValue
       \cup {[f \in DOMAIN g \cup {"exclude"} |-> IF f = "exclude" THEN x ELSE g[f]] :
                g \in withValue, x \in BOOLEAN}

ScopeGroups == ExtensionGroups \cup {SuffixAll, PrefixFolders, PrefixInPhotos, NumberGlobalSameId}

InitScope ==
    /\ \E name \in ScopeNames, group \in ScopeGroups :
          scopeIn = [name |-> name, isDirectory |-> Entry(name).isDirectory, group |-> group]
    /\ pc = "scope"
    /\ entries = <<>>
    /\ groups = <<>>
    /\ di = 0
    /\ fi = 0
    /\ groupCounters = <<>>
    /\ folderRenameMap = <<>>
    /\ newZip = <<>>
    /\ handed = <<>>
    /\ sent = <<>>
    /\ report = NoReport
    /\ warningsIn = EmptyWarnings
    /\ severityOut = ""
    /\ scopeOut = NoVerdict
    /\ previews = NoPreviews
    /\ zipOnDisk = FALSE
    /\ metaOnDisk = FALSE
    /\ timerArmed = FALSE
    /\ answers = <<>>
    /\ filesIn = <<>>
    /\ analysisOut = NoAnalysis

\* one group of the loop over the groups, for one entry: matchScope of the
\* server on the normalized name, and match of the client on the same entry
CheckScope ==
    /\ pc = "scope"
    /\ scopeOut' = [server |-> groupMatches(scopeIn.group, normalizeSlashes(scopeIn.name),
                                            scopeIn.isDirectory),
                    client |-> previewMatch([originalName |-> scopeIn.name,
                                             isDirectory |-> scopeIn.isDirectory],
                                            scopeIn.group)]
    /\ pc' = "checked"
    /\ UNCHANGED <<entries, groups, requestVars, sent, report, warningsIn, severityOut, scopeIn,
                   previews, storeVars, analyzerVars>>

NextScope == CheckScope

SpecScope == InitScope /\ [][NextScope]_vars

----------------------------------------------------------------------------
(* analyzeArchive as the function the library exports, on any list of files *)

e_acute_txt == <<"e", CombiningAcute, ".", "t", "x", "t">>
o_acute_txt == <<"o", CombiningAcute, ".", "t", "x", "t">>

\* file records with a path, and records that have none
FileRecords ==
    {[originalName |-> p, size |-> Entry(p).size, isDirectory |-> Entry(p).isDirectory] :
       p \in {a_jpg, File_txt, file_txt, CON_txt, e_acute_txt, o_acute_txt, Photos, Photos_img}}

PathlessRecords == {[size |-> 1, isDirectory |-> FALSE], [size |-> 0, isDirectory |-> TRUE]}

InitAnalyzer ==
    /\ filesIn \in SeqsUpTo(FileRecords \cup PathlessRecords, MaxEntries)
    /\ pc = "analyzer"
    /\ entries = <<>>
    /\ groups = <<>>
    /\ di = 0
    /\ fi = 0
    /\ groupCounters = <<>>
    /\ folderRenameMap = <<>>
    /\ newZip = <<>>
    /\ handed = <<>>
    /\ sent = <<>>
    /\ report = NoReport
    /\ warningsIn = EmptyWarnings
    /\ severityOut = ""
    /\ scopeIn = NoScope
    /\ scopeOut = NoVerdict
    /\ previews = NoPreviews
    /\ zipOnDisk = FALSE
    /\ metaOnDisk = FALSE
    /\ timerArmed = FALSE
    /\ answers = <<>>
    /\ analysisOut = NoAnalysis

\* one call of analyzeArchive(files)
AnalyzeFiles ==
    /\ pc = "analyzer"
    /\ analysisOut' = IF analyzeArchiveRaises(filesIn)
                      THEN [raised |-> TRUE, report |-> NoReport]
                      ELSE [raised |-> FALSE, report |-> analyzeArchive(filesIn)]
    /\ pc' = "returned"
    /\ UNCHANGED <<entries, groups, requestVars, sent, report, severityVars, scopeVars, previews,
                   storeVars, filesIn>>

NextAnalyzer == AnalyzeFiles

SpecAnalyzer == InitAnalyzer /\ [][NextAnalyzer]_vars

----------------------------------------------------------------------------
(* The life of one uploaded archive in the temp directory: /api/analyze     *)
(* stores it, /api/files, /api/process and /api/cleanup name it by tempId,  *)
(* and the timer of /api/analyze fires once.  Every handler is synchronous, *)
(* so each runs as one step.                                               *)

InitLifecycle ==
    /\ pc = "fresh"
    /\ entries = <<>>
    /\ groups = <<>>
    /\ di = 0
    /\ fi = 0
    /\ groupCounters = <<>>
    /\ folderRenameMap = <<>>
    /\ newZip = <<>>
    /\ handed = <<>>
    /\ sent = <<>>
    /\ report = NoReport
    /\ warningsIn = EmptyWarnings
    /\ severityOut = ""
    /\ scopeIn = NoScope
    /\ scopeOut = NoVerdict
    /\ previews = NoPreviews
    /\ zipOnDisk = FALSE
    /\ metaOnDisk = FALSE
    /\ timerArmed = FALSE
    /\ answers = <<>>
    /\ filesIn = <<>>
    /\ analysisOut = NoAnalysis

lifecycleRest == <<entries, di, fi, groupCounters, folderRenameMap, newZip, handed, sent, report,
                   severityVars, scopeVars, previews, analyzerVars>>

\* POST /api/analyze: multer has stored the upload; a readable archive gets its
\* .meta file and its timer, an unreadable one is cleaned up at once
StoreArchive ==
    /\ pc = "fresh"
    /\ \E readable \in BOOLEAN :
          IF readable
          THEN /\ zipOnDisk' = TRUE
               /\ metaOnDisk' = TRUE
               /\ timerArmed' = TRUE
               /\ answers' = answered("analyze", 200)
               /\ pc' = "stored"
          ELSE /\ zipOnDisk' = cleanup(TRUE, FALSE).zip
               /\ metaOnDisk' = cleanup(TRUE, FALSE).meta
               /\ timerArmed' = FALSE
               /\ answers' = answered("analyze", 500)
               /\ pc' = "rejected"
    /\ UNCHANGED <<groups, lifecycleRest>>

\* GET /api/files/:tempId
GetFiles ==
    /\ pc = "stored"
    /\ Len(answers) < MaxRequests
    /\ answers' = answered("files", IF zipOnDisk THEN 200 ELSE 404)
    /\ UNCHANGED <<pc, groups, zipOnDisk, metaOnDisk, timerArmed, lifecycleRest>>

\* the suffix rule of SuffixAll, sent as the legacy field rules
SuffixRules == <<[type |-> "suffix", text |-> <<"_", "x">>]>>

\* the bodies of a /api/process request for the tempId: without rules and
\* ruleGroups, with ruleGroups, with the legacy rules
ProcessBodies ==
    {[tempId |-> "id"],
     [tempId |-> "id", ruleGroups |-> <<>>],
     [tempId |-> "id", ruleGroups |-> <<SuffixAll>>],
     [tempId |-> "id", ruleGroups |-> <<Null>>],
     [tempId |-> "id", rules |-> SuffixRules]}

\* !tempId || (!rules && !ruleGroups): an array, the empty one too, is truthy
missingParameters(body) ==
    ~Has(body, "tempId") \/ (~Has(body, "rules") /\ ~Has(body, "ruleGroups"))

\* let groups = ruleGroups if it holds a group, else the legacy rules as one
\* global group of the id default, else []
groupsOfBody(body) ==
    IF Has(body, "ruleGroups") /\ body.ruleGroups # <<>> THEN body.ruleGroups
    ELSE IF Has(body, "rules") /\ body.rules # <<>>
         THEN <<[id |-> "default", scope |-> "global", rules |-> body.rules]>>
         ELSE <<>>

\* the answer of /api/process, with the body it answers
processed(body, status) ==
    Append(answers, [route |-> "process", status |-> status, body |-> body])

\* POST /api/process as one step: 400 without rules and ruleGroups; 404 without
\* the archive; a null group raises in groups.forEach and the catch answers 500
\* without cleanup; otherwise the new archive is sent and the original is
\* cleaned up
ProcessRequest ==
    /\ pc = "stored"
    /\ Len(answers) < MaxRequests
    /\ \E body \in ProcessBodies :
          IF missingParameters(body)
          THEN /\ answers' = processed(body, 400)
               /\ UNCHANGED <<groups, zipOnDisk, metaOnDisk>>
          ELSE IF ~zipOnDisk
          THEN /\ answers' = processed(body, 404)
               /\ UNCHANGED <<groups, zipOnDisk, metaOnDisk>>
          ELSE /\ groups' = groupsOfBody(body)
               /\ IF \E k \in 1..Len(groups') : isNull(groups'[k])
                  THEN /\ answers' = processed(body, 500)
                       /\ UNCHANGED <<zipOnDisk, metaOnDisk>>
                  ELSE /\ answers' = processed(body, 200)
                       /\ zipOnDisk' = cleanup(zipOnDisk, metaOnDisk).zip
                       /\ metaOnDisk' = cleanup(zipOnDisk, metaOnDisk).meta
    /\ UNCHANGED <<pc, timerArmed, lifecycleRest>>

\* POST /api/cleanup
CleanupRequest ==
    /\ pc = "stored"
    /\ Len(answers) < MaxRequests
    /\ zipOnDisk' = cleanup(zipOnDisk, metaOnDisk).zip
    /\ metaOnDisk' = cleanup(zipOnDisk, metaOnDisk).meta
    /\ answers' = answered("cleanup", 200)
    /\ UNCHANGED <<pc, groups, timerArmed, lifecycleRest>>

\* setTimeout(() => cleanup(req.file.path), 10 * 60 * 1000)
TimerFires ==
    /\ timerArmed
    /\ timerArmed' = FALSE
    /\ zipOnDisk' = cleanup(zipOnDisk, metaOnDisk).zip
    /\ metaOnDisk' = cleanup(zipOnDisk, metaOnDisk).meta
    /\ UNCHANGED <<pc, groups, answers, lifecycleRest>>

NextLifecycle ==
    \/ StoreArchive
    \/ GetFiles
    \/ ProcessRequest
    \/ CleanupRequest
    \/ TimerFires

\* the timer of a running server fires
SpecLifecycle == InitLifecycle /\ [][NextLifecycle]_vars /\ WF_vars(TimerFires)

----------------------------------------------------------------------------
(* The vocabulary of the claims: the Path Decomposer of the specification   *)
(* and the listing as the claims speak of it                                *)

\* the path split at its last slash
parentOf(p) == SubSeq(p, 1, lastIndexOf(p, "/") + 1)
baseOf(p) == SubSeq(p, lastIndexOf(p, "/") + 2, Len(p))

\* a base name split at its last dot; a dot at position 0 is no separator
stemOf(base) == IF lastIndexOf(base, ".") > 0 THEN SubSeq(base, 1, lastIndexOf(base, ".")) ELSE base
extOf(base) ==
    IF lastIndexOf(base, ".") > 0 THEN SubSeq(base, lastIndexOf(base, ".") + 1, Len(base)) ELSE <<>>

equalIgnoringCase(a, b) == Len(a) = Len(b) /\ \A k \in 1..Len(a) : CharToLower(a[k]) = CharToLower(b[k])

\* the segments of a final path, the trailing slash of a directory aside
segmentsOf(p, isDirectory) ==
    split(IF isDirectory /\ p # <<>> /\ p[Len(p)] = "/" THEN SubSeq(p, 1, Len(p) - 1) ELSE p)

BadSegments == {<<>>, <<".">>, <<".", ".">>}

\* a path of the data model: slash-separated, no ".", ".." or empty segment
WellFormedPath(p) ==
    /\ \A k \in 1..Len(p) : p[k] # "\\"
    /\ p # <<>>
    /\ \A seg \in Range(segmentsOf(p, p[Len(p)] = "/")) : seg \notin BadSegments

finals == [k \in 1..Len(newZip) |-> newZip[k].finalPath]

fileNames == [k \in 1..Len(fileEntries) |-> fileEntries[k].entryName]

\* the final path of the k-th file of the listing
finalOfFile(k) == newZip[Len(dirEntries) + k].finalPath

\* the state in which /api/analyze has its report
analyzed == pc = "analyzed"

\* the groups of files that share the parent directory and the lower-cased base
\* name and hold at least two spellings, in the order the detector meets them:
\* by the first file of the directory, then by the first file of the name
conflictKey(p) == <<parentOf(p), toLowerCase(baseOf(p))>>

expectedConflicts ==
    LET names == fileNames
        keyAt == [k \in 1..Len(names) |-> conflictKey(names[k])]
        keys == Range(keyAt)
        filesOfKey == [key \in keys |-> {k \in 1..Len(names) : keyAt[k] = key}]
        conflicting == {key \in keys : Cardinality({baseOf(names[k]) : k \in filesOfKey[key]}) >= 2}
        firstOfDir == [key \in conflicting |-> SetMin({k \in 1..Len(names) : keyAt[k][1] = key[1]})]
        firstOfKey == [key \in conflicting |-> SetMin(filesOfKey[key])]
        detectedBefore(a, b) ==
            \/ firstOfDir[a] < firstOfDir[b]
            \/ firstOfDir[a] = firstOfDir[b] /\ firstOfKey[a] < firstOfKey[b]
        pos == [key \in conflicting |-> 1 + Cardinality({o \in conflicting : detectedBefore(o, key)})]
        spellings(key) == LET hit == SelectSeq(names, LAMBDA p : conflictKey(p) = key)
                          IN [k \in 1..Len(hit) |-> baseOf(hit[k])]
    IN [i \in 1..Cardinality(conflicting) |->
            LET key == CHOOSE key \in conflicting : pos[key] = i
            IN [conflictingFiles |-> spellings(key), resultName |-> key[2],
                type |-> "case_sensitivity"]]

reportedConflicts ==
    [k \in 1..Len(report.warnings.renameConflicts) |->
        [conflictingFiles |-> report.warnings.renameConflicts[k].conflictingFiles,
         resultName |-> report.warnings.renameConflicts[k].resultName,
         type |-> report.warnings.renameConflicts[k].type]]

\* every entry a system pattern matches, with the first pattern that matches it
expectedSystemFiles ==
    LET typeOf(name) == SYSTEM_FILE_TYPES[SetMin({k \in 1..Len(SYSTEM_FILE_TYPES) :
                                                    systemPatternTest(SYSTEM_FILE_TYPES[k], name)})]
        hit == SelectSeq(entries, LAMBDA e : \E k \in 1..Len(SYSTEM_FILE_TYPES) :
                                                systemPatternTest(SYSTEM_FILE_TYPES[k], e.entryName))
    IN [k \in 1..Len(hit) |-> [path |-> hit[k].entryName, type |-> typeOf(hit[k].entryName)]]

----------------------------------------------------------------------------
(* The claims                                                              *)

\* C1: with an empty rule-group list the rename gives every entry a final path
\* equal to its original path.  Stated for the listings of the data model, whose
\* paths are well formed; the claim for every listing implies it.
C1_IdentityWithNoGroups ==
    (pc = "done" /\ groups = <<>> /\ \A k \in 1..Len(entries) : WellFormedPath(entries[k].entryName))
        => \A k \in 1..Len(newZip) : newZip[k].finalPath = newZip[k].originalName

\* C2: under one global group with one numbering rule of start s >= 0 (default
\* 1), padding p (default 1) and separator sep (default "-"), the k-th file
\* (from 0) gets the decimal string of k + s, zero-padded to p digits, as
\* stem+sep+n, or n+sep+stem when position is start.
C2_NumberingFromStart ==
    (pc = "done" /\ Len(groups) = 1 /\ AtomField(groups[1], "scope") = "global"
     /\ Has(groups[1], "rules") /\ Len(groups[1].rules) = 1
     /\ AtomField(groups[1].rules[1], "type") = "numbering")
        => LET rule == groups[1].rules[1]
               s == IF Has(rule, "start") THEN rule.start ELSE 1
               p == IF Has(rule, "padding") THEN rule.padding ELSE 1
               sep == IF Has(rule, "separator") THEN rule.separator ELSE <<"-">>
           IN \A k \in 1..Len(fileNames) :
                LET base == baseOf(fileNames[k])
                    n == padStart(String((k - 1) + s), p)
                IN baseOf(finalOfFile(k)) =
                      IF Has(rule, "position") /\ rule.position = "start"
                      THEN n \o sep \o stemOf(base) \o extOf(base)
                      ELSE stemOf(base) \o sep \o n \o extOf(base)

\* C3 as claimed: Photos/ and Photos/img.jpg under a folders group with prefix
\* new_ end as new_Photos/ and new_Photos/img.jpg.
C3_TopLevelFolderRenamed ==
    (pc = "done" /\ entries = <<Entry(Photos), Entry(Photos_img)>> /\ groups = <<PrefixFolders>>)
        => finals = <<new_ \o Photos, new_ \o Photos_img>>

\* C3 as amended: the top-level directory Photos/ and its file keep their paths;
\* a directory with a parent, Top/Photos/, is renamed to Top/new_Photos/ and the
\* file inside it follows to Top/new_Photos/img.jpg.
C3_NestedFolderRenamePropagates ==
    (pc = "done" /\ groups = <<PrefixFolders>>)
        => /\ entries = <<Entry(Photos), Entry(Photos_img)>> => finals = <<Photos, Photos_img>>
           /\ entries = <<Entry(Top_Photos), Entry(Top_Photos_img)>>
                => finals = << <<"T", "o", "p", "/">> \o new_ \o Photos,
                               <<"T", "o", "p", "/">> \o new_ \o Photos_img >>

C3_Witness ==
    /\ pc = "done"
    /\ entries = <<Entry(Top_Photos), Entry(Top_Photos_img)>>
    /\ groups = <<PrefixFolders>>
    /\ newZip[2].finalPath = <<"T", "o", "p", "/">> \o new_ \o Photos_img

\* C4 as claimed: the single file a.TXT under an extension group of .txt with
\* the rule lowercase ends as a.txt.
C4_LowercaseFoldsExtension ==
    (pc = "done" /\ entries = <<Entry(a_TXT)>> /\ groups = <<LowercaseTxt>>)
        => finals = <<toLowerCase(a_TXT)>>

\* C4 as amended: the extension scope matches ignoring letter case, and the
\* lowercase rule folds the stem only: every file whose extension is .txt in
\* any case is matched and ends as its lower-cased stem plus its extension as
\* written (a.TXT stays a.TXT, B.TXT becomes b.TXT); no other file is matched.
C4_ExtensionMatchIgnoresCase ==
    (pc = "done" /\ groups = <<LowercaseTxt>>)
        => /\ \A k \in 1..Len(fileNames) :
                LET base == baseOf(fileNames[k]) IN
                finalOfFile(k) =
                    IF equalIgnoringCase(extOf(base), dot_txt)
                    THEN parentOf(fileNames[k]) \o toLowerCase(stemOf(base)) \o extOf(base)
                    ELSE fileNames[k]
           /\ Len(handed) = Cardinality({k \in 1..Len(fileNames) :
                                            equalIgnoringCase(extOf(baseOf(fileNames[k])), dot_txt)})
           /\ entries = <<Entry(a_TXT)>> => finals = <<a_TXT>>

C4_Witness ==
    /\ pc = "done"
    /\ entries = <<Entry(B_TXT)>>
    /\ groups = <<LowercaseTxt>>
    /\ handed = << <<"g3", 0>> >>
    /\ finals = << <<"b", ".", "T", "X", "T">> >>

\* C5 as claimed: simulateRenameConflicts reports one case_sensitivity conflict
\* for every group of files of one directory whose names are equal ignoring
\* case and spelled in at least two ways.
C5_EveryConflictGroupReported ==
    analyzed => reportedConflicts = expectedConflicts

\* C5 as amended: the conflicts reported are the first 10 such groups in
\* detection order, each with its base names in listing order and the
\* lower-cased name; File.txt and file.txt give exactly one conflict, of
\* File.txt and file.txt with result file.txt, and the severity critical.
C5_First10ConflictGroupsReported ==
    analyzed
        => /\ \A k \in 1..Len(reportedConflicts) : reportedConflicts[k].type = "case_sensitivity"
           /\ LET expected == expectedConflicts IN
              /\ Len(reportedConflicts) = IF Len(expected) < 10 THEN Len(expected) ELSE 10
              /\ \A k \in 1..Len(reportedConflicts) : reportedConflicts[k] = expected[k]
           /\ entries = <<Entry(File_txt), Entry(file_txt)>>
                => /\ reportedConflicts = << [conflictingFiles |-> <<File_txt, file_txt>>,
                                              resultName |-> file_txt,
                                              type |-> "case_sensitivity"] >>
                   /\ report.severity = "critical"

C5_Witness ==
    /\ analyzed
    /\ entries = <<Entry(File_txt), Entry(file_txt)>>
    /\ Len(report.warnings.renameConflicts) = 1
    /\ report.severity = "critical"

\* C6 as claimed: a single file whose path is 300 UTF-8 bytes long is flagged
\* for the 260 limit and for the 1024 limit, not for the 4096 limit.
C6_300BytesOverMacosLimit ==
    (analyzed /\ entries = <<Entry(repeat("a", 300))>>)
        => {w.limit : w \in Range(report.warnings.pathTooLong)} = {260, 1024}

\* C6 as amended: a single file whose path is 300 UTF-8 bytes long (300
\* one-byte, 150 two-byte or 100 three-byte characters) gets exactly one
\* pathTooLong warning, for the 260 limit, and none for the 1024 and 4096 limits.
C6_300BytesOverWindowsLimitOnly ==
    (analyzed /\ entries \in {<<Entry(repeat("a", 300))>>, <<Entry(repeat("é", 150))>>,
                              <<Entry(repeat("€", 100))>>})
        => /\ Len(report.warnings.pathTooLong) = 1
           /\ report.warnings.pathTooLong[1].limit = 260
           /\ report.warnings.pathTooLong[1].os = "windows"
           /\ report.warnings.pathTooLong[1].length = 300

C6_Witness ==
    /\ analyzed
    /\ entries = <<Entry(repeat("é", 150))>>
    /\ Len(report.warnings.pathTooLong) = 1
    /\ report.warnings.pathTooLong[1].length = 300

\* C7: a file gets an invalidChars warning of exactly [RESERVED_NAME] with os
\* windows, apart from its forbidden-character warnings, if and only if its
\* base name without extension is, ignoring case, one of CON, PRN, AUX, NUL,
\* COM1..COM9, LPT1..LPT9; CON.txt is such a file.
C7_ReservedNameWarning ==
    analyzed
        => LET ws == report.warnings.invalidChars
               reservedStem(p) == \E r \in RESERVED_NAMES_WINDOWS :
                                      equalIgnoringCase(stemOf(baseOf(p)), r)
               tagged(w) == \E j \in 1..Len(w.invalidChars) : w.invalidChars[j] = RESERVED_NAME
           IN /\ \A p \in Range(fileNames) :
                    reservedStem(p) <=> \E k \in 1..Len(ws) : ws[k].path = p /\ tagged(ws[k])
              /\ \A k \in 1..Len(ws) :
                    tagged(ws[k]) => ws[k].invalidChars = <<RESERVED_NAME>> /\ ws[k].os = "windows"
              /\ CON_txt \in Range(fileNames) => reservedStem(CON_txt)

C7_Witness ==
    /\ analyzed
    /\ entries = <<Entry(CON_txt), Entry(d_aux)>>
    /\ \E k \in 1..Len(report.warnings.invalidChars) :
          /\ report.warnings.invalidChars[k].path = d_aux
          /\ report.warnings.invalidChars[k].invalidChars = <<RESERVED_NAME>>
    /\ \E k \in 1..Len(report.warnings.invalidChars) :
          /\ report.warnings.invalidChars[k].path = d_aux
          /\ report.warnings.invalidChars[k].invalidChars = << <<"?">> >>

\* C8: for every combination of warning counts the severity is critical iff
\* there is a conflict; otherwise high iff more than 5 path-length or more than
\* 5 invalid-character warnings; otherwise medium iff a duplicate or a unicode
\* warning; otherwise low iff a system file; otherwise none.
C8_SeverityPriority ==
    pc = "classified"
        => LET w == warningsIn
               conflict == Len(w.renameConflicts) >= 1
               many == Len(w.pathTooLong) > 5 \/ Len(w.invalidChars) > 5
               some == Len(w.duplicateNames) >= 1 \/ Len(w.unicodeIssues) >= 1
               noise == Len(w.systemFiles) >= 1
           IN /\ severityOut = "critical" <=> conflict
              /\ severityOut = "high" <=> ~conflict /\ many
              /\ severityOut = "medium" <=> ~conflict /\ ~many /\ some
              /\ severityOut = "low" <=> ~conflict /\ ~many /\ ~some /\ noise
              /\ severityOut = "none" <=> ~conflict /\ ~many /\ ~some /\ ~noise

C8_Witness ==
    /\ pc = "classified"
    /\ Len(warningsIn.renameConflicts) = 0
    /\ Len(warningsIn.pathTooLong) = 6
    /\ Len(warningsIn.invalidChars) = 5
    /\ Len(warningsIn.duplicateNames) = 1
    /\ severityOut = "high"

\* C9: in every report renameConflicts holds at most 10 items and systemFiles
\* at most 20, and each is the first 10 (20) items, in detection order, of what
\* the detector finds without a cap.
C9_CappedArrays ==
    analyzed
        => /\ Len(report.warnings.renameConflicts) <= 10
           /\ Len(report.warnings.systemFiles) <= 20
           /\ report.warnings.systemFiles = firstN(expectedSystemFiles, 20)
           /\ reportedConflicts = firstN(expectedConflicts, 10)

C9_Witness ==
    /\ analyzed
    /\ Len(entries) = 21
    /\ Len(expectedSystemFiles) = 21
    /\ Len(report.warnings.systemFiles) = 20

\* C10: no final path written to the output archive, of a file or of a
\* directory, has a segment equal to ".", ".." or the empty string.
C10_NoTraversalSegment ==
    \A k \in 1..Len(newZip) :
        \A seg \in Range(segmentsOf(newZip[k].finalPath, newZip[k].isDirectory)) :
            seg \notin BadSegments

\* an entry with no parent path segment
isTopLevel(name) == lastIndexOf(stripTrailingSlashes(name), "/") = -1

topLevelDirectory(e) == e.isDirectory /\ isTopLevel(e.entryName)

\* C11 as claimed: an entry with no parent path segment, file or directory, is
\* matched by no rule group: its final path is its original path and a listing
\* of such entries advances no group counter.
C11_TopLevelNeverMatched ==
    pc = "done"
        => /\ \A k \in 1..Len(newZip) :
                isTopLevel(newZip[k].originalName) => newZip[k].finalPath = newZip[k].originalName
           /\ (\A k \in 1..Len(entries) : isTopLevel(entries[k].entryName)) => handed = <<>>

\* C11 as amended: a top-level directory is matched by no rule group, whatever
\* the scope: its final path is its original path and it advances no counter
\* (the indexes handed out are at most one per group and other entry).  A
\* top-level file is matched like any other file: under one group that is
\* global or has no scope, and has rules, every file of the listing is handed an
\* index.
C11_TopLevelDirectoryNeverMatched ==
    pc = "done"
        => /\ \A k \in 1..Len(newZip) :
                (newZip[k].isDirectory /\ isTopLevel(newZip[k].originalName))
                    => newZip[k].finalPath = newZip[k].originalName
           /\ Len(handed) <= Len(groups) * Cardinality({k \in 1..Len(entries) :
                                                          ~topLevelDirectory(entries[k])})
           /\ (Len(groups) = 1 /\ ~skipGroup(groups[1])
               /\ AtomField(groups[1], "scope") \in {"", "global"}
               /\ \A k \in 1..Len(entries) : isTopLevel(entries[k].entryName))
                    => Len(handed) = Len(fileEntries)

C11_Witness ==
    /\ pc = "done"
    /\ entries = <<Entry(Photos), Entry(a_jpg)>>
    /\ groups = <<SuffixAll>>
    /\ finals = <<Photos, <<"a", "_", "x", ".", "j", "p", "g">> >>
    /\ handed = << <<"g6", 0>> >>

\* C12: for every rule-group list, with a null group, a null rule, a rule of an
\* unknown or missing type or a rule without its fields, the request does not
\* end in an error and every entry gets a final path; the malformed rule is a
\* no-op and the rules after it still apply (under the group of odd rules and
\* under the group with a null rule every file gets the suffix _x).
C12_MalformedRulesAreNoOps ==
    /\ pc # "error"
    /\ pc = "done"
        => /\ Len(newZip) = Len(entries)
           /\ (groups = <<OddRulesGroup>> \/ groups = <<NullRuleGroup>>)
                => \A k \in 1..Len(fileNames) :
                      finalOfFile(k) = parentOf(fileNames[k]) \o stemOf(baseOf(fileNames[k]))
                                       \o <<"_", "x">> \o extOf(baseOf(fileNames[k]))

\* C13: two requests over the same listing and the same rule groups send the
\* same final paths, and no counter value of the first request is carried into
\* the second: every request starts its two phases with all counters at 0.
C13_RunsAgree ==
    /\ \A i, j \in 1..Len(sent) : sent[i] = sent[j]
    /\ (pc = "renaming" /\ di = 0 /\ fi = 0)
            => \A id \in DOMAIN groupCounters : groupCounters[id] = 0

C13_Witness ==
    /\ Len(sent) = 2
    /\ entries = <<Entry(a_jpg), Entry(b_jpg)>>
    /\ Len(groups) = 1 /\ groupId(groups[1]) = "g1"
    /\ sent[1][2].finalPath = <<"b", "_", "0", "0", "2", ".", "j", "p", "g">>
    /\ sent[2][2].finalPath = <<"b", "_", "0", "0", "2", ".", "j", "p", "g">>

\* a listing without an issue: every path has a parent folder, is at most 260
\* characters long and is made of ASCII letters, digits, ".", "-", "_" and the
\* separator; no two files of a directory are equal ignoring case; no system
\* file and no reserved name
cleanListing ==
    /\ entries # <<>>
    /\ \A k \in 1..Len(entries) :
          LET name == entries[k].entryName IN
          /\ ~isTopLevel(name)
          /\ Len(name) <= 260
          /\ Range(name) \subseteq AsciiLetters \cup DigitChars \cup {".", "-", "_", "/"}
          /\ \A r \in RESERVED_NAMES_WINDOWS : ~equalIgnoringCase(stemOf(baseOf(name)), r)
    /\ \A i, j \in 1..Len(fileNames) : i # j => conflictKey(fileNames[i]) # conflictKey(fileNames[j])
    /\ expectedSystemFiles = <<>>

\* C14: for a listing without an issue analyzeArchive returns the severity
\* none and six empty warning arrays, however many files the listing holds.
C14_CleanArchiveNoWarnings ==
    (analyzed /\ cleanListing)
        => /\ report.severity = "none"
           /\ report.warnings = EmptyWarnings

\* the entry lies under a directory named __MACOSX, at the top level or deeper
underMACOSX(name) ==
    LET segs == split(name) IN \E k \in 1..(Len(segs) - 1) : segs[k] = MACOSX

\* C15: every entry under a __MACOSX directory, a top-level one included, is
\* reported in systemFiles with the type __MACOSX while the cap of 20 is not
\* reached.
C15_MacosxEntriesReported ==
    (analyzed /\ Len(entries) <= 20)
        => \A k \in 1..Len(entries) :
              underMACOSX(entries[k].entryName)
                 => \E j \in 1..Len(report.warnings.systemFiles) :
                       /\ report.warnings.systemFiles[j].path = entries[k].entryName
                       /\ report.warnings.systemFiles[j].type = "__MACOSX"

\* the entries in processing order: the directories, then the files
processingOrder == dirEntries \o fileEntries

\* the path the scope check of the k-th processed entry is given
checkedName(k) ==
    IF k <= Len(dirEntries) THEN normalizeSlashes(processingOrder[k].entryName)
    ELSE rewriteByFolderMap(folderRenameMap, normalizeSlashes(processingOrder[k].entryName))

\* the number of times a group of the id is run on one of the first n processed entries
runsOfId(id, n) ==
    Cardinality({<<k, g>> \in (1..n) \X (1..Len(groups)) :
                    /\ ~topLevelDirectory(processingOrder[k])
                    /\ ~skipGroup(groups[g])
                    /\ groupId(groups[g]) = id
                    /\ groupMatches(groups[g], checkedName(k), processingOrder[k].isDirectory)})

\* C16: during one request, for each group id the scoped indexes handed to
\* applyRenamingRules are 0, 1, 2, ... in processing order, with no gap and no
\* repeat; the counter of the id is the number of times a group of that id has
\* matched an entry so far, so an entry the group does not match leaves it as
\* it is.
C16_ScopedIndexesAreSequential ==
    pc \in {"renaming", "done"}
        => \A id \in DOMAIN groupCounters \cup {handed[k][1] : k \in 1..Len(handed)} :
              LET ofId == SelectSeq(handed, LAMBDA h : h[1] = id) IN
              /\ \A k \in 1..Len(ofId) : ofId[k][2] = k - 1
              /\ counterOf(groupCounters, id) = Len(ofId)
              /\ Len(ofId) = runsOfId(id, di + fi)

C16_Witness ==
    /\ pc = "done"
    /\ entries = <<Entry(Top_Photos), Entry(Top_Photos_img), Entry(a_jpg)>>
    /\ groups = <<NumberAll, NumberGlobalSameId>>
    /\ handed = << <<"g12", 0>>, <<"g12", 1>>, <<"g12", 2>>, <<"g12", 3>>, <<"g12", 4>> >>
    /\ groupCounters["g12"] = 5

\* the directories of the listing that have a parent, in listing order
nestedDirectories == SelectSeq(dirEntries, LAMBDA e : ~isTopLevel(e.entryName))

\* the final path of the j-th directory that has a parent
finalOfNestedDirectory(j) ==
    LET out == SelectSeq(newZip, LAMBDA z : z.isDirectory /\ ~isTopLevel(z.originalName))
    IN out[j].finalPath

\* one global group with one numbering rule of the defaults
oneGlobalNumbering ==
    /\ pc = "done" /\ Len(groups) = 1 /\ ~isNull(groups[1])
    /\ AtomField(groups[1], "scope") = "global"
    /\ Has(groups[1], "rules") /\ groups[1].rules = <<[type |-> "numbering"]>>

\* C17 as claimed: the counter of a group is shared by the directory phase and
\* the file phase, and a globally-scoped numbering rule counts the directories
\* and the files in one continuous sequence: the nested directories are
\* numbered 1, 2, ..., d and the files continue with d+1, d+2, ...
C17_GlobalRuleCountsDirectories ==
    oneGlobalNumbering
        => LET d == Len(nestedDirectories)
           IN /\ \A k \in 1..Len(fileNames) :
                    LET base == baseOf(fileNames[k]) IN
                    baseOf(finalOfFile(k)) =
                        stemOf(base) \o <<"-">> \o String(d + k) \o extOf(base)
              /\ \A j \in 1..Len(nestedDirectories) :
                    LET name == stripTrailingSlashes(nestedDirectories[j].entryName) IN
                    finalOfNestedDirectory(j) = name \o <<"-">> \o String(j) \o <<"/">>

\* C17 as amended: the counter of a group is shared by the directory phase and
\* the file phase.  Under one group with one numbering rule of the defaults, the
\* directories the group matches are numbered 1, 2, ... and the files continue
\* from the value the directories left: a group without a scope numbers d
\* directories and then the files d+1, d+2, ...; a global group matches no
\* directory, so no directory is numbered and its files are numbered 1, 2, ...
C17_CounterSharedByPhases ==
    (pc = "done" /\ Len(groups) = 1 /\ ~isNull(groups[1])
     /\ AtomField(groups[1], "scope") \in {"", "global"}
     /\ Has(groups[1], "rules") /\ groups[1].rules = <<[type |-> "numbering"]>>)
        => LET counted == AtomField(groups[1], "scope") = ""
               d == IF counted THEN Len(nestedDirectories) ELSE 0
           IN /\ \A k \in 1..Len(fileNames) :
                    LET base == baseOf(fileNames[k]) IN
                    baseOf(finalOfFile(k)) =
                        stemOf(base) \o <<"-">> \o String(d + k) \o extOf(base)
              /\ \A j \in 1..Len(nestedDirectories) :
                    LET name == stripTrailingSlashes(nestedDirectories[j].entryName) IN
                    finalOfNestedDirectory(j) =
                        IF counted THEN name \o <<"-">> \o String(j) \o <<"/">>
                        ELSE name \o <<"/">>

C17_Witness ==
    /\ pc = "done"
    /\ entries = <<Entry(Top_Photos_img), Entry(Top_Photos)>>
    /\ groups = <<NumberAll>>
    /\ finals = << <<"T", "o", "p", "/", "P", "h", "o", "t", "o", "s", "-", "1", "/">>,
                   <<"T", "o", "p", "/", "P", "h", "o", "t", "o", "s", "-", "1", "/",
                     "i", "m", "g", "-", "2", ".", "j", "p", "g">> >>

\* the parent path of an entry: of a directory, the parent of the path without
\* its trailing slash
parentOfEntry(name) == parentOf(stripTrailingSlashes(name))

\* a listing of well-formed paths without a dollar sign
plainListing ==
    \A k \in 1..Len(entries) :
        WellFormedPath(entries[k].entryName) /\ "$" \notin Range(entries[k].entryName)

\* C18: after a request every file, and every nested directory, lies under the
\* final path of the directory entry that contains it: its final parent path
\* is the final path written for its parent directory entry.  Stated for the
\* listings of well-formed paths without a dollar sign; the claim for every
\* listing implies it.
C18_EntriesFollowTheirDirectory ==
    (pc = "done" /\ plainListing)
        => \A i, j \in 1..Len(newZip) :
              (newZip[j].isDirectory /\ parentOfEntry(newZip[i].originalName) = newZip[j].originalName)
                  => parentOfEntry(newZip[i].finalPath) = newZip[j].finalPath

\* C19: when more than one recorded mapping is a prefix of the path of a file,
\* the path is rewritten with the longest of them, whatever the order of the
\* directories in the listing.  Stated for the listings of well-formed paths
\* without a dollar sign; the claim for every listing implies it.
C19_LongestMappingWins ==
    (pc = "done" /\ plainListing)
        => \A k \in 1..Len(fileNames) :
              LET name == fileNames[k]
                  P == {m \in 1..Len(folderRenameMap) : startsWith(name, folderRenameMap[m][1])}
              IN P # {}
                  => LET m == CHOOSE m \in P :
                                 \A o \in P : Len(folderRenameMap[o][1]) <= Len(folderRenameMap[m][1])
                         rewritten == folderRenameMap[m][2]
                                      \o SubSeq(name, Len(folderRenameMap[m][1]) + 1, Len(name))
                     IN parentOf(finalOfFile(k)) = parentOf(rewritten)

\* the extension the path decomposition gives a file: the part of the base
\* name from its last dot, a dot at position 0 being no separator
withLeadingDot(v) == IF startsWith(v, <<".">>) THEN v ELSE <<".">> \o v

expectedExtensionVerdict ==
    LET matches == equalIgnoringCase(extOf(baseOf(normalizeSlashes(scopeIn.name))),
                                     withLeadingDot(scopeIn.group.scopeValue))
        exclude == Has(scopeIn.group, "exclude") /\ scopeIn.group.exclude
    IN ~scopeIn.isDirectory /\ (IF exclude THEN ~matches ELSE matches)

extensionChecked ==
    /\ pc = "checked"
    /\ AtomField(scopeIn.group, "scope") = "extension"
    /\ StrField(scopeIn.group, "scopeValue") # <<>>

\* C20: for a group of scope extension, a file matches iff its extension
\* equals scopeValue ignoring case, exclude = true inverts that comparison for
\* files, and a directory never matches, in matchScope of the server and in
\* updatePreviews of the client alike.
C20_ExtensionScopeInBothChecks ==
    extensionChecked =>
        /\ scopeOut.server = expectedExtensionVerdict
        /\ scopeOut.client = expectedExtensionVerdict

\* the indexes handed out for a group id
handedTo(id) == {k \in 1..Len(handed) : handed[k][1] = id}

\* the entries whose listed path, normalized, starts with the folder; a
\* top-level directory is matched by no group
listedUnder(folder) ==
    {k \in 1..Len(entries) :
        /\ ~topLevelDirectory(entries[k])
        /\ startsWith(normalizeSlashes(entries[k].entryName), normalizeSlashes(folder))}

\* C21: a group of scope folder applies to every entry, file or directory,
\* whose listed path starts with scopeValue, also to a file whose directory is
\* renamed in the same run: the group hands one index to each such entry.
C21_FolderScopeByListedPath ==
    pc = "done"
        => \A g \in 1..Len(groups) :
              (/\ ~skipGroup(groups[g])
               /\ AtomField(groups[g], "scope") = "folder"
               /\ StrField(groups[g], "scopeValue") # <<>>
               /\ \A h \in 1..Len(groups) : groupId(groups[h]) = groupId(groups[g]) => h = g)
                  => Cardinality(handedTo(groupId(groups[g])))
                        = Cardinality(listedUnder(groups[g].scopeValue))

\* the rules of the group hold no numbering rule, so that their result does
\* not depend on the index
noNumbering(group) ==
    \A r \in 1..Len(group.rules) : AtomField(group.rules[r], "type") # "numbering"

\* C22: rules applied to a directory act on its whole base name, a dot inside
\* it being no extension separator, and the trailing slash is stripped before
\* and appended again after: under one group of scope folders the final path of
\* a nested directory is its parent path, the rules applied to its whole base
\* name, and a slash.
C22_DirectoryStemIsWholeName ==
    (pc = "done" /\ Len(groups) = 1 /\ ~skipGroup(groups[1])
     /\ AtomField(groups[1], "scope") = "folders" /\ noNumbering(groups[1]))
        => \A k \in 1..Len(newZip) :
              (newZip[k].isDirectory /\ ~isTopLevel(newZip[k].originalName))
                  => LET dirPath == stripTrailingSlashes(normalizeSlashes(newZip[k].originalName))
                     IN newZip[k].finalPath =
                           parentOf(dirPath)
                           \o applyRulesFrom(baseOf(dirPath), 0, groups[1].rules, 1)
                           \o <<"/">>

\* the rule types of the specification and the rule types of the switch
SpecTypes == {"replace", "prefix", "suffix", "lowercase", "uppercase", "remove_special",
              "numbering", "pattern"}

SwitchTypes == {"replace", "regex", "trim", "normalize_space", "lowercase", "uppercase",
                "prefix", "suffix", "remove_special", "kebab_case", "numbering"}

\* the group holds no rule of type pattern
noPatternIn(group) ==
    \A r \in 1..Len(group.rules) : AtomField(group.rules[r], "type") # "pattern"

\* the rules of the given types applied from the left, each to the stem the
\* rule before it gave
foldRules(stem, rules, types) ==
    LET known == SelectSeq(rules, LAMBDA r : AtomField(r, "type") \in types)
        f[k \in 0..Len(known)] == IF k = 0 THEN stem ELSE applyRule(f[k - 1], 0, known[k])
    IN f[Len(known)]

\* the texts of the rules hold no path separator
noSlashInRules(group) ==
    \A r \in 1..Len(group.rules) :
        "/" \notin Range(StrField(group.rules[r], "text"))
                     \cup Range(StrField(group.rules[r], "replace"))

\* one global group without numbering, whose rules write no path separator,
\* over a listing of well-formed paths
oneGlobalGroup ==
    /\ pc = "done"
    /\ Len(groups) = 1
    /\ ~skipGroup(groups[1])
    /\ AtomField(groups[1], "scope") = "global"
    /\ noNumbering(groups[1])
    /\ noSlashInRules(groups[1])
    /\ \A k \in 1..Len(entries) : WellFormedPath(entries[k].entryName)

rulesGive(types) ==
    \A k \in 1..Len(fileNames) :
        LET base == baseOf(fileNames[k])
        IN baseOf(finalOfFile(k)) = foldRules(stemOf(base), groups[1].rules, types) \o extOf(base)

\* C23 as claimed: the rules of a group run in array order, each on the stem
\* the rule before it gave, and a rule whose type is not one of replace, prefix,
\* suffix, lowercase, uppercase, remove_special, numbering, pattern leaves the
\* stem unchanged and does not stop the rules after it.
C23_UnlistedTypesAreNoOps == oneGlobalGroup => rulesGive(SpecTypes)

\* C23 as amended: the rules of a group run in array order, each on the stem
\* the rule before it gave, and a rule whose type is not one of replace, regex,
\* trim, normalize_space, lowercase, uppercase, prefix, suffix, remove_special,
\* kebab_case, numbering, pattern leaves the stem unchanged and does not stop
\* the rules after it.  Nothing is stated of a rule of type pattern, so the
\* groups checked hold none.
C23_RulesInOrderOthersSkipped ==
    (oneGlobalGroup /\ noPatternIn(groups[1])) => rulesGive(SwitchTypes)

C23_Witness ==
    /\ pc = "done"
    /\ entries = <<Entry(File_txt), Entry(File_txt)>>
    /\ groups = <<OddRulesGroup>>
    /\ finals = << <<"F", "i", "l", "e", "_", "x", ".", "t", "x", "t">>,
                   <<"F", "i", "l", "e", "_", "x", ".", "t", "x", "t">> >>

\* C24: in the final paths a pattern rule replaces the whole stem by its
\* template, with {name} the current stem, {index} the scoped index + 1 padded
\* to 3 digits, {ext} the extension without its dot, {parent} the immediate
\* parent segment and {depth} the number of parent segments; the extension is
\* appended unless the template holds {ext}.  Stated for one global group with
\* one pattern rule, whose scoped index of the k-th file is k - 1.
C24_PatternReplacesStem ==
    (oneGlobalGroup /\ Len(groups[1].rules) = 1
     /\ AtomField(groups[1].rules[1], "type") = "pattern"
     /\ StrField(groups[1].rules[1], "pattern") # <<>>)
        => \E now \in Clocks : \A k \in 1..Len(fileNames) :
              LET base == baseOf(fileNames[k])
                  template == groups[1].rules[1].pattern
              IN baseOf(finalOfFile(k)) =
                    patternResult(template, stemOf(base), k - 1, extOf(base),
                                  parentOf(fileNames[k]), now)
                    \o (IF includes(template, <<"{", "e", "x", "t", "}">>) THEN <<>> ELSE extOf(base))

\* the groups of files of one parent directory and one case-folded base name
\* that hold more than one distinct original spelling, each with its full
\* count and its first 10 original paths
expectedDuplicates ==
    LET names == fileNames
        keys == {conflictKey(names[k]) : k \in 1..Len(names)}
        pathsOf(key) == SelectSeq(names, LAMBDA p : conflictKey(p) = key)
    IN {[count |-> Len(pathsOf(key)), paths |-> firstN(pathsOf(key), 10)] :
          key \in {x \in keys : Cardinality(Range(pathsOf(x))) > 1}}

\* C25: detectDuplicates reports exactly the groups of files that share the
\* parent directory and the case-folded base name and hold more than one
\* distinct original spelling, each once, with the full count of the group and
\* at most its first 10 original paths.
C25_DuplicatesAreSpellingGroups ==
    analyzed =>
        LET dups == report.warnings.duplicateNames
        IN /\ {[count |-> dups[k].count, paths |-> dups[k].paths] : k \in 1..Len(dups)}
                 = expectedDuplicates
           /\ Len(dups) = Cardinality(expectedDuplicates)

\* the files of the call that have a path
withPath == SelectSeq(filesIn, LAMBDA f : Has(f, "originalName"))

\* C26: an entry without a path is excluded by analyzeArchive and leaves no
\* partial record, and analyzeArchive never raises: the call returns, and its
\* report is the report of the entries that have a path.
C26_PathlessEntriesExcluded ==
    pc = "returned"
        => /\ ~analysisOut.raised
           /\ analysisOut.report = analyzeArchive(withPath)

\* the final path /api/process gives the k-th entry of the listing: the
\* directories are written first, then the files, each in listing order
finalOfEntry(k) ==
    LET sameKind == {j \in 1..k : entries[j].isDirectory = entries[k].isDirectory}
    IN newZip[(IF entries[k].isDirectory THEN 0 ELSE Len(dirEntries)) + Cardinality(sameKind)].finalPath

\* C27: the preview name updatePreviews computes for an entry equals the final
\* path /api/process gives that entry, for every listing and every list of
\* rule groups.
C27_PreviewEqualsFinalPath ==
    (pc = "done" /\ previews.computed /\ ~previews.threw)
        => \A k \in 1..Len(entries) : previews.names[k] = finalOfEntry(k)

\* no rule of the request is a pattern rule
noPatternRule ==
    \A g \in 1..Len(groups) :
        (~isNull(groups[g]) /\ Has(groups[g], "rules"))
            => \A r \in 1..Len(groups[g].rules) :
                  AtomField(groups[g].rules[r], "type") # "pattern"

\* C28: under rule groups that hold no pattern rule the final name of every
\* file ends with the original extension of the file: across all the groups
\* applied to it the rules change the stem only.
C28_ExtensionKept ==
    (pc = "done" /\ noPatternRule
     /\ \A k \in 1..Len(entries) : WellFormedPath(entries[k].entryName))
        => \A k \in 1..Len(fileNames) :
              endsWith(baseOf(finalOfFile(k)), extOf(baseOf(fileNames[k])))

\* C29: in every analysis report each renameConflicts item has a
\* duplicateNames item for the same directory and the same case-folded name,
\* so a report with a conflict has a duplicate warning.
C29_ConflictsAreDuplicates ==
    analyzed =>
        LET conflicts == report.warnings.renameConflicts
            dups == report.warnings.duplicateNames
        IN \A c \in 1..Len(conflicts) :
              \E d \in 1..Len(dups) :
                  /\ dups[d].directory = conflicts[c].directory
                  /\ toLowerCase(dups[d].filename) = conflicts[c].resultName

\* the archive of the tempId has been stored and is gone, with its .meta file
deleted == pc = "stored" /\ ~zipOnDisk /\ ~metaOnDisk

\* the answer the last step gave, when the step answered a request
lastAnswer == answers'[Len(answers')]

\* C30 as stated: every archive /api/analyze stores is eventually deleted from
\* the temp directory together with its .meta file, under every interleaving of
\* the requests and the timer; once it is deleted it stays deleted, every later
\* /api/process or /api/files request answers 404, and a cleanup changes
\* nothing on disk.
C30_StoredArchiveIsDeleted ==
    /\ [](zipOnDisk => <>(~zipOnDisk /\ ~metaOnDisk))
    /\ [](~zipOnDisk => ~metaOnDisk)
    /\ [][deleted =>
            /\ deleted'
            /\ answers' # answers =>
                  lastAnswer.status = IF lastAnswer.route = "cleanup" THEN 200 ELSE 404]_vars

\* C30, amended: every archive /api/analyze stores is eventually deleted from
\* the temp directory together with its .meta file, under every interleaving of
\* the requests and the timer; once it is deleted it stays deleted, every later
\* /api/files request and every later /api/process request that carries rules
\* or ruleGroups answers 404, a /api/process request without them answers 400,
\* and a cleanup changes nothing on disk.
C30_DeletedThen404Or400 ==
    /\ [](zipOnDisk => <>(~zipOnDisk /\ ~metaOnDisk))
    /\ [](~zipOnDisk => ~metaOnDisk)
    /\ [][deleted =>
            /\ deleted'
            /\ answers' # answers =>
                  lastAnswer.status =
                      CASE lastAnswer.route = "cleanup" -> 200
                        [] lastAnswer.route = "files" -> 404
                        [] OTHER -> IF Has(lastAnswer.body, "rules")
                                       \/ Has(lastAnswer.body, "ruleGroups")
                                    THEN 404 ELSE 400]_vars

\* the archive outlived a failed /api/process, the timer deleted it, and the
\* tempId was then processed with rule groups and without any rules
C30_Witness ==
    /\ deleted
    /\ ~timerArmed
    /\ \E i, j, k \in 1..Len(answers) :
          /\ i < j /\ j < k
          /\ answers[i].route = "process" /\ answers[i].status = 500
          /\ answers[j].route = "process" /\ answers[j].status = 404
          /\ Has(answers[j].body, "ruleGroups")
          /\ answers[k] = [route |-> "process", status |-> 400, body |-> [tempId |-> "id"]]

====
